---- MODULE Spec2Model ----
(***************************************************************************)
(* A model of the weather fetch pipeline of daily_weather_report:          *)
(*   - WeatherFetcher (src/src/weather.py): the retrying request executor, *)
(*     the geocoder with its comma fallback, the forecast fetcher and its  *)
(*     shape validation;                                                   *)
(*   - webhook_server.py: ResponseCache, _get_weather and the /weather     *)
(*     endpoint.                                                           *)
(* One top-level call (an endpoint request, or a direct call of a          *)
(* WeatherFetcher method as the repository's tests make them) runs from    *)
(* the freshly constructed services to its return.  The upstream APIs are  *)
(* the environment: every HTTP attempt ends in an outcome chosen freely.   *)
(***************************************************************************)
EXTENDS Integers, Sequences, FiniteSets, TLC

(***************************************************************************)
(* Program constants.                                                      *)
(***************************************************************************)
MAX_RETRIES == 3
INITIAL_RETRY_DELAY == 1
MAX_RETRY_DELAY == 8
TIMEOUT == 10
CACHE_TTL_SECONDS == 1800
MaxCityChars == 100

(***************************************************************************)
(* Bounds of the model.                                                    *)
(***************************************************************************)
MaxCityLen == 2
MaxDays == 2
MaxValues == 2
MaxTicks == 3
MaxRequests == 2
MaxThreads == 2
MaxReads == 2

(***************************************************************************)
(* Values.  Python's None and JSON values are records tagged by kind, so   *)
(* that any two of them can be compared.  A string is a sequence of        *)
(* one-character strings.                                                  *)
(***************************************************************************)
None == [kind |-> "none"]

\* The argument None where a string is expected (test_refactoring.py calls
\* get_coordinates(None)).
NoneCity == <<"None">>

Alphabet == {"H", ",", " "}

RECURSIVE StringsOfLen(_)
StringsOfLen(n) ==
  IF n = 0 THEN {<<>>}
  ELSE {Append(s, c) : s \in StringsOfLen(n - 1), c \in Alphabet}

ShortStrings == UNION {StringsOfLen(n) : n \in 0..MaxCityLen}

\* "x" * n, the long names of test_refactoring.py.
Repeat(c, n) == [i \in 1..n |-> c]

\* The city strings a caller passes: every short string, and the names of
\* exactly 100 and of 101 characters.
Cities == ShortStrings \cup {Repeat("x", MaxCityChars), Repeat("x", MaxCityChars + 1)}

\* The configured default location, CITY = 'Houston, Texas'.
CITY == <<"H", ",", " ", "T">>

(***************************************************************************)
(* String operations used by the code.                                     *)
(***************************************************************************)
\* "," in city
HasComma(s) == \E i \in 1..Len(s) : s[i] = ","

\* city.split(",")[0]
BeforeComma(s) ==
  IF HasComma(s)
  THEN LET i == CHOOSE j \in 1..Len(s) : s[j] = "," /\ \A k \in 1..(j - 1) : s[k] # ","
       IN  SubSeq(s, 1, i - 1)
  ELSE s

RECURSIVE LStrip(_)
LStrip(s) == IF s # <<>> /\ Head(s) = " " THEN LStrip(Tail(s)) ELSE s

RECURSIVE RStrip(_)
RStrip(s) ==
  IF s # <<>> /\ s[Len(s)] = " " THEN RStrip(SubSeq(s, 1, Len(s) - 1)) ELSE s

\* str.strip()
Strip(s) == LStrip(RStrip(s))

\* f"forecast_{city}"
\* CacheKey giving every city the same key.
CacheKey_Shared(s) == <<"forecast_">>

CacheKey(s) == <<"forecast_">> \o s

(***************************************************************************)
(* Upstream payloads: what response.json() can return.                     *)
(***************************************************************************)
\* One geocoding result: the fields it carries and their values.
GeoResult(fields) ==
  [fields |-> fields, latitude |-> 29, longitude |-> 95,
   name |-> <<"H">>, country |-> <<"U">>, admin1 |-> <<"T">>]

GeoFields == {"latitude", "longitude", "name", "country", "admin1"}

GeoResults ==
  { GeoResult(GeoFields),
    GeoResult({"latitude", "longitude"}),
    GeoResult({"longitude", "name"}),
    GeoResult({"latitude", "name"}),
    GeoResult({"name"}) }

\* A geocoding body: JSON null, a JSON list, or an object with or without
\* "results".
GeoPayloads ==
  { [kind |-> "null"], [kind |-> "list"],
    [kind |-> "object", keys |-> {}, results |-> <<>>],
    [kind |-> "object", keys |-> {"generationtime_ms"}, results |-> <<>>],
    [kind |-> "object", keys |-> {"results"}, results |-> <<>>] }
  \cup { [kind |-> "object", keys |-> {"results"}, results |-> <<r>>] : r \in GeoResults }

DailyKeys ==
  {"time", "weather_code", "temperature_2m_max", "temperature_2m_min",
   "precipitation_sum", "wind_speed_10m_max"}

\* The values of one per-day array: day i of field k.
BaseValue(k) ==
  CASE k = "time" -> 0
    [] k = "weather_code" -> 0
    [] k = "temperature_2m_max" -> 80
    [] k = "temperature_2m_min" -> 60
    [] k = "precipitation_sum" -> 0
    [] k = "wind_speed_10m_max" -> 10

DayArray(k, n) == [i \in 1..n |-> BaseValue(k) + i]

\* A daily series: the fields present and the array of each (empty where the
\* field is absent).
Daily(present, len) ==
  [present |-> present,
   arr |-> [k \in DailyKeys |-> IF k \in present THEN DayArray(k, len[k]) ELSE <<>>]]

UniformDailies == { Daily(DailyKeys, [k \in DailyKeys |-> n]) : n \in 0..MaxDays }

OneMissingDailies ==
  { Daily(DailyKeys \ {m}, [k \in DailyKeys |-> n]) : m \in DailyKeys, n \in 1..MaxDays }

OneShortDailies ==
  { Daily(DailyKeys, [k \in DailyKeys |-> IF k = m THEN n - 1 ELSE n]) :
      m \in DailyKeys, n \in 1..MaxDays }

Dailies == UniformDailies \cup OneMissingDailies \cup OneShortDailies

NoDaily == Daily({}, [k \in DailyKeys |-> 0])

\* A forecast body: JSON null, the empty object, an object without "daily",
\* or an object with a daily series, with or without "timezone".
ForecastPayloads ==
  { [kind |-> "null"],
    [kind |-> "object", keys |-> {}, daily |-> NoDaily],
    [kind |-> "object", keys |-> {"timezone"}, daily |-> NoDaily] }
  \cup { [kind |-> "object", keys |-> {"daily", "timezone"}, daily |-> d] : d \in Dailies }
  \cup { [kind |-> "object", keys |-> {"daily"}, daily |-> d] : d \in UniformDailies }

\* Python truthiness of a payload: `not data` holds of None and of {}.
Truthy(p) ==
  /\ p.kind # "none"
  /\ p.kind # "null"
  /\ ~(p.kind = "object" /\ p.keys = {})

(***************************************************************************)
(* The outcome of one HTTP attempt (requests.get, raise_for_status, json). *)
(***************************************************************************)
Outcomes == {"ok", "timeout", "connection", "http4xx", "http5xx", "badjson", "other"}

\* The except clause of _make_request_with_retry that catches an outcome:
\* requests.Timeout; requests.ConnectionError and every other
\* RequestException (HTTPError of raise_for_status included); JSONDecodeError.
\* Any other exception (the built-in TimeoutError of stress_test.py) is not
\* caught.  A body that is no JSON ends in the JSONDecodeError clause, or,
\* raised as requests' own JSONDecodeError, in the RequestException clause:
\* the two clauses have the same body.
\* ExceptClause with a 5xx status left uncaught.
ExceptClause_Fatal5xx(o) ==
  CASE o = "timeout" -> "Timeout"
    [] o \in {"connection", "http4xx"} -> "RequestException"
    [] o = "badjson" -> "JSONDecodeError"
    [] OTHER -> "uncaught"

\* ExceptClause without the JSONDecodeError clause.
ExceptClause_FatalJson(o) ==
  CASE o = "timeout" -> "Timeout"
    [] o \in {"connection", "http4xx", "http5xx"} -> "RequestException"
    [] OTHER -> "uncaught"

ExceptClause(o) ==
  CASE o = "timeout" -> "Timeout"
    [] o \in {"connection", "http4xx", "http5xx"} -> "RequestException"
    [] o = "badjson" -> "JSONDecodeError"
    [] OTHER -> "uncaught"

Caught(o) == ExceptClause(o) # "uncaught"

\* retry_delay = min(retry_delay * 2, MAX_RETRY_DELAY)
\* NextDelay adding the initial delay instead of doubling.
NextDelay_Linear(d) ==
  IF d + 2 < MAX_RETRY_DELAY THEN d + 2 ELSE MAX_RETRY_DELAY

NextDelay(d) == IF d * 2 < MAX_RETRY_DELAY THEN d * 2 ELSE MAX_RETRY_DELAY

\* An empty dict.
EmptyDict == [k \in {} |-> None]

(***************************************************************************)
(* State.                                                                  *)
(***************************************************************************)
VARIABLES
  entry,        \* the top-level call in progress
  pc,           \* its position
  city,         \* the city argument
  target,       \* the executor call in progress: geo1, geo2, forecast, direct
  attempt,      \* the executor's loop index
  retry_delay,  \* the executor's local retry_delay
  outcomes,     \* outcomes of the attempts of this executor call
  sleeps,       \* time.sleep arguments of this executor call
  execResult,   \* what the executor returned
  execRaised,   \* whether the executor raised instead
  received,     \* the body of the 2xx response read in this executor call
  lookups,      \* the names sent to the geocoding endpoint, one per executor call
  httpCalls,    \* HTTP GETs of this top-level call, per endpoint
  sleepCalls,   \* time.sleep calls of this top-level call
  located,      \* the geocoding result handed to _extract_location_data
  coords,       \* result of get_coordinates
  fetchResult,  \* result of fetch_forecast
  response,     \* the response dictionary
  httpStatus,   \* the endpoint's status code
  raised,       \* whether the top-level call raised
  cache,        \* ResponseCache.cache
  timestamps,   \* ResponseCache.timestamps
  cacheReads,   \* ResponseCache.get calls of this top-level call
  cacheWrites,  \* ResponseCache.set calls of this top-level call
  now,          \* the clock, in seconds; a sleep of d advances it by d
  ticks,        \* how often the clock was advanced between operations
  lastOp,       \* the last direct ResponseCache operation, with the maps it found
  written,      \* per key, the last direct set: its value, its time, whether a
                \* clear came after it, and the gets that found it since
  served,       \* the requests answered so far, oldest first
  threads,      \* per request thread, the ResponseCache call it is inside
  calls,        \* per request thread, the _get_weather call it is inside
  geocoders     \* the two get_coordinates implementations run side by side

vars ==
  <<entry, pc, city, target, attempt, retry_delay, outcomes, sleeps, execResult,
    execRaised, received, lookups, httpCalls, sleepCalls, located, coords, fetchResult,
    response, httpStatus, raised, cache, timestamps, cacheReads, cacheWrites, now,
    ticks, lastOp, written, served, threads, calls, geocoders>>

execVars ==
  <<target, attempt, retry_delay, outcomes, sleeps, execResult, execRaised, received>>
cacheVars == <<cache, timestamps>>
historyVars == <<ticks, lastOp, written, served, threads, calls, geocoders>>
callVars ==
  <<entry, pc, city, execVars, lookups, httpCalls, sleepCalls, located, coords,
    fetchResult, response, httpStatus, raised, cacheReads, cacheWrites, calls,
    geocoders>>

\* A thread outside every ResponseCache call.
IdleThread ==
  [pc |-> "idle", key |-> <<>>, value |-> None, seen |-> 0, result |-> None,
   deletedNew |-> FALSE]

Threads == 1..MaxThreads

\* A thread that has not been given a request.
IdleCall == [pc |-> "idle"]

\* Neither get_coordinates has been called.
IdleGeocoders == [pc |-> "idle"]

Init ==
  /\ entry = "none"
  /\ pc = "idle"
  /\ city = <<>>
  /\ target = "none"
  /\ attempt = 0
  /\ retry_delay = INITIAL_RETRY_DELAY
  /\ outcomes = <<>>
  /\ sleeps = <<>>
  /\ execResult = None
  /\ execRaised = FALSE
  /\ received = None
  /\ lookups = <<>>
  /\ httpCalls = [geo |-> 0, forecast |-> 0, direct |-> 0]
  /\ sleepCalls = 0
  /\ located = None
  /\ coords = None
  /\ fetchResult = None
  /\ response = None
  /\ httpStatus = 0
  /\ raised = FALSE
  /\ cache = EmptyDict
  /\ timestamps = EmptyDict
  /\ cacheReads = 0
  /\ cacheWrites = 0
  /\ now = 0
  /\ ticks = 0
  /\ lastOp = [op |-> "none"]
  /\ written = EmptyDict
  /\ served = <<>>
  /\ threads = [t \in Threads |-> IdleThread]
  /\ calls = [t \in Threads |-> IdleCall]
  /\ geocoders = IdleGeocoders

(***************************************************************************)
(* WeatherFetcher._make_request_with_retry                                 *)
(***************************************************************************)
Endpoint(t) == IF t \in {"geo1", "geo2"} THEN "geo" ELSE t

PayloadsFor(t) == IF t = "forecast" THEN ForecastPayloads ELSE GeoPayloads

\* for attempt in range(MAX_RETRIES): index a is followed by another
\* iteration.
\* LoopContinues over twice the range.
LoopContinues_Twice(a) == a + 1 < 2 * MAX_RETRIES

\* LoopContinues with the bound off by one.
LoopContinues_OffByOne(a) == a + 1 <= MAX_RETRIES

LoopContinues(a) == a + 1 < MAX_RETRIES

\* if attempt < MAX_RETRIES - 1: the failed attempt a is followed by a sleep.
\* SleepsAfter sleeping after the last attempt too.
SleepsAfter_Always(a) == TRUE

SleepsAfter(a) == a < MAX_RETRIES - 1

\* A call of the executor: retry_delay = INITIAL_RETRY_DELAY, then the loop.
StartExec(t) ==
  /\ target' = t
  /\ attempt' = 0
  /\ retry_delay' = INITIAL_RETRY_DELAY
  /\ outcomes' = <<>>
  /\ sleeps' = <<>>
  /\ execResult' = None
  /\ execRaised' = FALSE
  /\ received' = None

\* One loop iteration whose GET succeeds: return response.json().
AttemptOk(p) ==
  /\ pc = "exec"
  /\ p \in PayloadsFor(target)
  /\ httpCalls' = [httpCalls EXCEPT ![Endpoint(target)] = @ + 1]
  /\ outcomes' = Append(outcomes, "ok")
  /\ received' = p
  /\ execResult' = p
  /\ pc' = "exec_ret"
  /\ UNCHANGED <<entry, city, target, attempt, retry_delay, sleeps, execRaised, lookups,
                 sleepCalls, located, coords, fetchResult, response, httpStatus, raised,
                 cacheVars, cacheReads, cacheWrites, now>>
  /\ UNCHANGED historyVars

\* One loop iteration that ends in an except clause: sleep and double the
\* delay unless this was the last attempt, then continue; after the last
\* iteration the loop ends and the executor returns None.
AttemptFails(o) ==
  /\ pc = "exec"
  /\ o \in Outcomes \ {"ok"}
  /\ Caught(o)
  /\ httpCalls' = [httpCalls EXCEPT ![Endpoint(target)] = @ + 1]
  /\ outcomes' = Append(outcomes, o)
  /\ IF SleepsAfter(attempt)
     THEN /\ sleeps' = Append(sleeps, retry_delay)
          /\ sleepCalls' = sleepCalls + 1
          /\ now' = now + retry_delay
          /\ retry_delay' = NextDelay(retry_delay)
     ELSE UNCHANGED <<sleeps, sleepCalls, now, retry_delay>>
  /\ attempt' = attempt + 1
  /\ pc' = IF LoopContinues(attempt) THEN "exec" ELSE "exec_ret"
  /\ UNCHANGED <<entry, city, target, execResult, execRaised, received, lookups, located, coords,
                 fetchResult, response, httpStatus, raised, cacheVars, cacheReads,
                 cacheWrites>>
  /\ UNCHANGED historyVars

\* One loop iteration whose exception no except clause catches: it leaves
\* the executor.
AttemptRaises(o) ==
  /\ pc = "exec"
  /\ o \in Outcomes \ {"ok"}
  /\ ~Caught(o)
  /\ httpCalls' = [httpCalls EXCEPT ![Endpoint(target)] = @ + 1]
  /\ outcomes' = Append(outcomes, o)
  /\ execRaised' = TRUE
  /\ pc' = "exec_ret"
  /\ UNCHANGED <<entry, city, target, attempt, retry_delay, sleeps, execResult, received,
                 lookups,
                 sleepCalls, located, coords, fetchResult, response, httpStatus, raised,
                 cacheVars, cacheReads, cacheWrites, now>>
  /\ UNCHANGED historyVars

\* A direct call of the executor (test_refactoring.py, test_error_handling).
CallMakeRequest ==
  /\ pc = "idle"
  /\ entry' = "executor"
  /\ pc' = "exec"
  /\ StartExec("direct")
  /\ UNCHANGED <<city, lookups, httpCalls, sleepCalls, located, coords, fetchResult, response,
                 httpStatus, raised, cacheVars, cacheReads, cacheWrites, now>>
  /\ UNCHANGED historyVars

\* The direct call returns to, or raises into, its caller.
MakeRequestReturn ==
  /\ pc = "exec_ret"
  /\ target = "direct"
  /\ pc' = "done"
  /\ raised' = execRaised
  /\ UNCHANGED <<entry, city, execVars, lookups, httpCalls, sleepCalls, located, coords,
                 fetchResult, response, httpStatus, cacheVars, cacheReads, cacheWrites,
                 now>>
  /\ UNCHANGED historyVars

\* The body weather_webhook answers an unexpected exception with.
InternalErrorResponse == [status |-> "error", message |-> <<"Internal server error">>]

(***************************************************************************)
(* WeatherFetcher.get_coordinates and _extract_location_data               *)
(***************************************************************************)
\* result.get(field, default)
FieldOr(r, f, default) == IF f \in r.fields THEN r[f] ELSE default

\* ExtractLocationData with latitude and longitude exchanged.
ExtractLocationData_Swapped(r) ==
  IF {"latitude", "longitude"} \subseteq r.fields
  THEN [kind |-> "location",
        latitude |-> r.longitude,
        longitude |-> r.latitude,
        city |-> FieldOr(r, "name", <<"Unknown">>),
        country |-> FieldOr(r, "country", <<"Unknown">>),
        state |-> FieldOr(r, "admin1", <<>>)]
  ELSE None

\* ExtractLocationData requiring the latitude only.
ExtractLocationData_LatitudeOnly(r) ==
  IF "latitude" \in r.fields
  THEN [kind |-> "location",
        latitude |-> r.latitude,
        longitude |-> r.longitude,
        city |-> FieldOr(r, "name", <<"Unknown">>),
        country |-> FieldOr(r, "country", <<"Unknown">>),
        state |-> FieldOr(r, "admin1", <<>>)]
  ELSE None

\* _extract_location_data: None unless latitude and longitude are present.
ExtractLocationData(r) ==
  IF {"latitude", "longitude"} \subseteq r.fields
  THEN [kind |-> "location",
        latitude |-> r.latitude,
        longitude |-> r.longitude,
        city |-> FieldOr(r, "name", <<"Unknown">>),
        country |-> FieldOr(r, "country", <<"Unknown">>),
        state |-> FieldOr(r, "admin1", <<>>)]
  ELSE None

\* data.get("results") is a non-empty list.
HasResults(data) == "results" \in data.keys /\ data.results # <<>>

\* except Exception (line 113): the exceptions get_coordinates catches.
GetCoordinatesCatches_Narrow(exc) == exc \in {"KeyError", "TypeError"}

GetCoordinatesCatches(exc) == TRUE

\* What the try body does when exc is raised in it: the except clause
\* returns None ("fail"); an exception it does not catch leaves
\* get_coordinates ("raise").
OnLookupException(exc) == IF GetCoordinatesCatches(exc) THEN "fail" ELSE "raise"

\* FirstLookupDecision taking the comma fallback also when the first lookup
\* returned no body.
FirstLookupDecision_FallbackOnFailure(raisedInExec, data, c) ==
  IF raisedInExec THEN OnLookupException("Propagated")
  ELSE IF ~Truthy(data)
  THEN (IF c # NoneCity /\ HasComma(c) THEN "fallback" ELSE "fail")
  ELSE IF data.kind # "object" THEN OnLookupException("AttributeError")
  ELSE IF HasResults(data) THEN "extract"
  ELSE IF c = NoneCity THEN OnLookupException("TypeError")
  ELSE IF HasComma(c) THEN "fallback"
  ELSE "fail"

\* What get_coordinates does with the first lookup's return (lines 92-111):
\* "fail" (return None), "fallback" (the second lookup) or "extract".
\* An exception (raised by the executor, by .get on a body that is no
\* object, or by `"," in None`) ends in the except clause: return None.
FirstLookupDecision(raisedInExec, data, c) ==
  IF raisedInExec THEN OnLookupException("Propagated")
  ELSE IF ~Truthy(data) THEN "fail"
  ELSE IF data.kind # "object" THEN OnLookupException("AttributeError")
  ELSE IF HasResults(data) THEN "extract"
  ELSE IF c = NoneCity THEN OnLookupException("TypeError")
  ELSE IF HasComma(c) THEN "fallback"
  ELSE "fail"

\* What get_coordinates does with the fallback lookup's return (105-109).
FallbackDecision(raisedInExec, data) ==
  IF raisedInExec THEN OnLookupException("Propagated")
  ELSE IF ~Truthy(data) THEN "fail"
  ELSE IF data.kind # "object" THEN OnLookupException("AttributeError")
  ELSE IF HasResults(data) THEN "extract"
  ELSE "fail"

\* The name of the fallback lookup: city.split(",")[0].strip()
FallbackName(c) == Strip(BeforeComma(c))

\* GetCoordinatesReturns going on to the forecast request without coordinates.
GetCoordinatesReturns_ForecastAnyway(c) ==
  /\ coords' = c
  /\ UNCHANGED <<response, httpStatus, raised>>
  /\ IF entry = "get_coordinates"
     THEN /\ pc' = "done"
          /\ UNCHANGED <<execVars, fetchResult>>
     ELSE /\ pc' = "exec"
          /\ StartExec("forecast")
          /\ UNCHANGED fetchResult

\* get_coordinates returns c.  A direct call is over; inside fetch_forecast
\* (lines 154-170) None ends the fetch and coordinates start the forecast
\* request.
GetCoordinatesReturns(c) ==
  /\ coords' = c
  /\ UNCHANGED <<response, httpStatus, raised>>
  /\ IF entry = "get_coordinates"
     THEN /\ pc' = "done"
          /\ UNCHANGED <<execVars, fetchResult>>
     ELSE IF c = None
     THEN /\ pc' = "fetched"
          /\ fetchResult' = None
          /\ UNCHANGED execVars
     ELSE /\ pc' = "exec"
          /\ StartExec("forecast")
          /\ UNCHANGED fetchResult

\* An exception leaves get_coordinates: a direct call raises; inside a
\* request it passes through fetch_forecast and _get_weather (the calls at
\* weather.py:154 and webhook_server.py:104 are outside their try blocks)
\* to the except clause of weather_webhook, which answers 500.
GetCoordinatesRaises ==
  /\ pc' = "done"
  /\ UNCHANGED <<coords, execVars, fetchResult>>
  /\ IF entry = "get_coordinates"
     THEN /\ raised' = TRUE
          /\ UNCHANGED <<response, httpStatus>>
     ELSE /\ response' = InternalErrorResponse
          /\ httpStatus' = 500
          /\ UNCHANGED raised

\* The lookup's return is acted on: d is "fail", "extract" or "raise".
LookupEnds(d) ==
  IF d = "raise"
  THEN /\ GetCoordinatesRaises
       /\ UNCHANGED located
  ELSE IF d = "extract"
  THEN /\ located' = execResult.results[1]
       /\ GetCoordinatesReturns(ExtractLocationData(execResult.results[1]))
  ELSE /\ GetCoordinatesReturns(None)
       /\ UNCHANGED located

\* A direct call of get_coordinates (the stress tests, test_error_handling):
\* the first lookup is sent with the name as given.
CallGetCoordinates(c) ==
  /\ pc = "idle"
  /\ c \in Cities \cup {NoneCity}
  /\ entry' = "get_coordinates"
  /\ city' = c
  /\ lookups' = <<c>>
  /\ pc' = "exec"
  /\ StartExec("geo1")
  /\ UNCHANGED <<httpCalls, sleepCalls, located, coords, fetchResult, response,
                 httpStatus, raised, cacheVars, cacheReads, cacheWrites, now>>
  /\ UNCHANGED historyVars

\* The first lookup has returned.
FirstLookupReturn ==
  /\ pc = "exec_ret"
  /\ target = "geo1"
  /\ LET d == FirstLookupDecision(execRaised, execResult, city) IN
       IF d = "fallback"
       THEN /\ lookups' = Append(lookups, FallbackName(city))
            /\ pc' = "exec"
            /\ StartExec("geo2")
            /\ UNCHANGED <<located, coords, fetchResult, response, httpStatus, raised>>
       ELSE /\ LookupEnds(d)
            /\ UNCHANGED lookups
  /\ UNCHANGED <<entry, city, httpCalls, sleepCalls, cacheVars, cacheReads,
                 cacheWrites, now>>
  /\ UNCHANGED historyVars

\* The fallback lookup has returned.
FallbackLookupReturn ==
  /\ pc = "exec_ret"
  /\ target = "geo2"
  /\ LookupEnds(FallbackDecision(execRaised, execResult))
  /\ UNCHANGED <<entry, city, lookups, httpCalls, sleepCalls, cacheVars, cacheReads,
                 cacheWrites, now>>
  /\ UNCHANGED historyVars

(***************************************************************************)
(* WeatherFetcher._validate_forecast_data and fetch_forecast               *)
(***************************************************************************)
\* required_daily_keys of _validate_forecast_data.
RequiredDailyKeys == {"time", "weather_code", "temperature_2m_max", "temperature_2m_min"}

\* ValidateForecastData accepting every body.
ValidateForecastData_AcceptsAll(data) == TRUE

ValidateForecastData(data) ==
  /\ data.kind = "object"
  /\ "daily" \in data.keys
  /\ RequiredDailyKeys \subseteq data.daily.present
  /\ Cardinality({Len(data.daily.arr[k]) : k \in RequiredDailyKeys}) <= 1

\* What fetch_forecast returns for the forecast request's return (172-191).
FetchForecastResult(raisedInExec, data, c, t) ==
  IF raisedInExec THEN None
  ELSE IF ~Truthy(data) THEN None
  ELSE IF ~ValidateForecastData(data) THEN None
  ELSE [kind |-> "forecast", location |-> c, forecast |-> data, fetched_at |-> t]

\* The forecast request has returned.
FetchForecastReturn ==
  /\ pc = "exec_ret"
  /\ target = "forecast"
  /\ fetchResult' = FetchForecastResult(execRaised, execResult, coords, now)
  /\ pc' = "fetched"
  /\ UNCHANGED <<entry, city, execVars, lookups, httpCalls, sleepCalls, located, coords, response,
                 httpStatus, raised, cacheVars, cacheReads, cacheWrites, now>>
  /\ UNCHANGED historyVars

(***************************************************************************)
(* webhook_server.py: ResponseCache                                        *)
(***************************************************************************)
\* DictPut dropping every other key.
DictPut_Clobber(d, k, v) == [x \in {k} |-> v]

\* d[k] = v
DictPut(d, k, v) == [x \in DOMAIN d \cup {k} |-> IF x = k THEN v ELSE d[x]]

\* DictRemove deleting every key.
DictRemove_All(d, k) == [x \in {} |-> d[x]]

\* del d[k]
DictRemove(d, k) == [x \in DOMAIN d \ {k} |-> d[x]]

\* CacheFresh with entries that never expire.
CacheFresh_Forever(c, ts, k, t) == k \in DOMAIN c

\* CacheFresh with an entry already stale at its expiry instant.
CacheFresh_Strict(c, ts, k, t) == k \in DOMAIN c /\ t < ts[k]

\* ResponseCache.get finds a stored, unexpired entry.
CacheFresh(c, ts, k, t) == k \in DOMAIN c /\ ~(t > ts[k])

\* The value ResponseCache.get returns.
CacheGet(c, ts, k, t) == IF CacheFresh(c, ts, k, t) THEN c[k] ELSE None

\* CacheAfterGet deleting an expired entry's value and keeping its expiry.
CacheAfterGet_KeepsExpiry(c, ts, k, t) ==
  IF k \in DOMAIN c /\ t > ts[k]
  THEN <<DictRemove(c, k), ts>>
  ELSE <<c, ts>>

\* CacheAfterGet renewing the expiry of the entry it found.
CacheAfterGet_Refreshes(c, ts, k, t) ==
  IF k \in DOMAIN c /\ t > ts[k]
  THEN <<DictRemove(c, k), DictRemove(ts, k)>>
  ELSE IF k \in DOMAIN c
  THEN <<c, DictPut(ts, k, t + CACHE_TTL_SECONDS)>>
  ELSE <<c, ts>>

\* The maps ResponseCache.get leaves: an expired entry is deleted.
CacheAfterGet(c, ts, k, t) ==
  IF k \in DOMAIN c /\ t > ts[k]
  THEN <<DictRemove(c, k), DictRemove(ts, k)>>
  ELSE <<c, ts>>

\* CacheAfterSet keeping the expiry of an entry already stored.
CacheAfterSet_KeepsExpiry(c, ts, k, v, t) ==
  <<DictPut(c, k, v),
    IF k \in DOMAIN ts THEN ts ELSE DictPut(ts, k, t + CACHE_TTL_SECONDS)>>

\* The maps ResponseCache.set leaves.
CacheAfterSet(c, ts, k, v, t) ==
  <<DictPut(c, k, v), DictPut(ts, k, t + CACHE_TTL_SECONDS)>>

\* CacheAfterClear removing nothing.
CacheAfterClear_Noop(c, ts) == <<c, ts>>

\* The maps ResponseCache.clear leaves.
CacheAfterClear(c, ts) == <<EmptyDict, EmptyDict>>

\* The keys and values of the direct cache operations.
CacheKeys == {CacheKey(<<"H">>), CacheKey(CITY)}

CacheValues == {[kind |-> "value", id |-> i] : i \in 1..MaxValues}

\* response_cache.get(k)
CacheOpGet(k) ==
  /\ pc = "idle"
  /\ lastOp' = [op |-> "get", key |-> k, value |-> None,
                ret |-> CacheGet(cache, timestamps, k, now), at |-> now,
                cache |-> cache, timestamps |-> timestamps]
  /\ cache' = CacheAfterGet(cache, timestamps, k, now)[1]
  /\ timestamps' = CacheAfterGet(cache, timestamps, k, now)[2]
  /\ UNCHANGED <<entry, pc, city, execVars, lookups, httpCalls, sleepCalls, located,
                 coords, fetchResult, response, httpStatus, raised, cacheReads,
                 cacheWrites, now, ticks, served, threads, calls, geocoders>>
  /\ written' = IF k \in DOMAIN written /\ CacheFresh(cache, timestamps, k, now)
                THEN [written EXCEPT ![k].reads =
                        IF @ < MaxReads THEN @ + 1 ELSE MaxReads]
                ELSE written

\* response_cache.set(k, v)
CacheOpSet(k, v) ==
  /\ pc = "idle"
  /\ lastOp' = [op |-> "set", key |-> k, value |-> v, ret |-> None, at |-> now,
                cache |-> cache, timestamps |-> timestamps]
  /\ cache' = CacheAfterSet(cache, timestamps, k, v, now)[1]
  /\ timestamps' = CacheAfterSet(cache, timestamps, k, v, now)[2]
  /\ written' = [x \in DOMAIN written \cup {k} |->
                   IF x = k THEN [value |-> v, at |-> now, live |-> TRUE, reads |-> 0]
                   ELSE written[x]]
  /\ UNCHANGED <<entry, pc, city, execVars, lookups, httpCalls, sleepCalls, located,
                 coords, fetchResult, response, httpStatus, raised, cacheReads,
                 cacheWrites, now, ticks, served, threads, calls, geocoders>>

\* response_cache.clear()
CacheOpClear ==
  /\ pc = "idle"
  /\ lastOp' = [op |-> "clear", key |-> <<>>, value |-> None, ret |-> None, at |-> now,
                cache |-> cache, timestamps |-> timestamps]
  /\ cache' = CacheAfterClear(cache, timestamps)[1]
  /\ timestamps' = CacheAfterClear(cache, timestamps)[2]
  /\ written' = [x \in DOMAIN written |-> [written[x] EXCEPT !.live = FALSE]]
  /\ UNCHANGED <<entry, pc, city, execVars, lookups, httpCalls, sleepCalls, located,
                 coords, fetchResult, response, httpStatus, raised, cacheReads,
                 cacheWrites, now, ticks, served, threads, calls, geocoders>>

\* datetime.now() moves on between two operations, by one second or by a
\* whole time-to-live.
Tick(d) ==
  /\ pc = "idle"
  /\ d \in {1, CACHE_TTL_SECONDS}
  /\ ticks < MaxTicks
  /\ ticks' = ticks + 1
  /\ now' = now + d
  /\ UNCHANGED <<entry, pc, city, execVars, lookups, httpCalls, sleepCalls, located,
                 coords, fetchResult, response, httpStatus, raised, cacheVars,
                 cacheReads, cacheWrites, lastOp, written, served, threads,
                 calls, geocoders>>

(***************************************************************************)
(* webhook_server.py: weather_webhook and _get_weather                     *)
(***************************************************************************)
\* request.args.get('city', CITY); NoneCity stands for a query without the
\* city parameter.
ArgsGet(q) == IF q = NoneCity THEN CITY ELSE q

\* not city or not isinstance(city, str) or len(city) > 100
\* InvalidCityParam without the emptiness test.
InvalidCityParam_LengthOnly(c) == c = NoneCity \/ Len(c) > MaxCityChars

InvalidCityParam(c) == c = <<>> \/ c = NoneCity \/ Len(c) > MaxCityChars

RECURSIVE SeqSum(_)
SeqSum(a) == IF a = <<>> THEN 0 ELSE Head(a) + SeqSum(Tail(a))

\* SeqMax taking the first entry.
SeqMax_First(a) == a[1]

SeqMax(a) == CHOOSE x \in {a[i] : i \in 1..Len(a)} : \A i \in 1..Len(a) : a[i] <= x

SeqMin(a) == CHOOSE x \in {a[i] : i \in 1..Len(a)} : \A i \in 1..Len(a) : x <= a[i]

\* The exception, if any, that building the response dictionary raises
\* (lines 115-134), the entries being evaluated in order.
SummaryException(f) ==
  LET d == f.daily IN
  IF d.arr["temperature_2m_max"] = <<>> THEN "ValueError"
  ELSE IF d.arr["temperature_2m_min"] = <<>> THEN "ValueError"
  ELSE IF "precipitation_sum" \notin d.present THEN "KeyError"
  ELSE IF "wind_speed_10m_max" \notin d.present THEN "KeyError"
  ELSE IF d.arr["wind_speed_10m_max"] = <<>> THEN "ZeroDivisionError"
  ELSE "none"

\* forecast_summary; a quotient is kept as numerator and denominator.
ForecastSummary(f) ==
  LET a == f.daily.arr IN
  [high_temp_f |-> SeqMax(a["temperature_2m_max"]),
   low_temp_f |-> SeqMin(a["temperature_2m_min"]),
   avg_high_temp_f |-> [num |-> SeqSum(a["temperature_2m_max"]),
                        den |-> Len(a["temperature_2m_max"])],
   days |-> Len(a["time"]),
   total_precipitation_inches |-> SeqSum(a["precipitation_sum"]),
   avg_wind_mph |-> [num |-> SeqSum(a["wind_speed_10m_max"]),
                     den |-> Len(a["wind_speed_10m_max"])]]

SuccessResponse(fr) ==
  [status |-> "success",
   from_cache |-> FALSE,
   data |-> [city |-> fr.location.city,
             state |-> fr.location.state,
             latitude |-> fr.location.latitude,
             longitude |-> fr.location.longitude,
             timezone |-> IF "timezone" \in fr.forecast.keys
                          THEN <<"tz">> ELSE <<"auto">>,
             forecast_summary |-> ForecastSummary(fr.forecast),
             fetched_at |-> fr.fetched_at]]

FetchErrorResponse(c) ==
  [status |-> "error", message |-> <<"Failed to fetch weather data for ">> \o c, city |-> c]

ProcessingErrorResponse(c) ==
  [status |-> "error", message |-> <<"Error processing weather data">>, city |-> c]

InvalidCityResponse == [status |-> "error", message |-> <<"Invalid city parameter">>]

\* StatusOf answering 200 whatever the result.
StatusOf_AlwaysOk(result) == 200

\* The status weather_webhook answers a result of _get_weather with.
StatusOf(result) == IF result.status = "error" THEN 503 ELSE 200

\* A request to / or /weather arrives: the city is read and checked; an
\* invalid one is answered 400, a valid one goes to _get_weather.
WebhookRequest(q) ==
  /\ pc = "idle"
  /\ q \in Cities \cup {NoneCity}
  /\ entry' = "webhook"
  /\ city' = ArgsGet(q)
  /\ IF InvalidCityParam(ArgsGet(q))
     THEN /\ response' = InvalidCityResponse
          /\ httpStatus' = 400
          /\ pc' = "done"
     ELSE /\ pc' = "get_weather"
          /\ UNCHANGED <<response, httpStatus>>
  /\ UNCHANGED <<execVars, lookups, httpCalls, sleepCalls, located, coords, fetchResult, raised,
                 cacheVars, cacheReads, cacheWrites, now>>
  /\ UNCHANGED historyVars

\* _get_weather, lines 94-104: the cache is read; a hit is tagged and
\* answered, a miss starts fetch_forecast, whose first step is the first
\* geocoding lookup.
GetWeatherCacheCheck ==
  /\ pc = "get_weather"
  /\ cacheReads' = cacheReads + 1
  /\ LET k == CacheKey(city)
         cached == CacheGet(cache, timestamps, k, now)
         after == CacheAfterGet(cache, timestamps, k, now)
     IN  IF cached # None
         THEN /\ response' = [cached EXCEPT !.from_cache = TRUE]
              /\ cache' = DictPut(after[1], k, [cached EXCEPT !.from_cache = TRUE])
              /\ timestamps' = after[2]
              /\ httpStatus' = StatusOf(cached)
              /\ pc' = "done"
              /\ UNCHANGED <<execVars, lookups>>
         ELSE /\ cache' = after[1]
              /\ timestamps' = after[2]
              /\ lookups' = <<city>>
              /\ pc' = "exec"
              /\ StartExec("geo1")
              /\ UNCHANGED <<response, httpStatus>>
  /\ UNCHANGED <<entry, city, httpCalls, sleepCalls, located, coords, fetchResult, raised,
                 cacheWrites, now>>
  /\ UNCHANGED historyVars

\* GetWeatherFinish storing the fetch error in the cache as well.
GetWeatherFinish_CachesErrors ==
  /\ pc = "fetched"
  /\ pc' = "done"
  /\ IF fetchResult = None
     THEN LET after == CacheAfterSet(cache, timestamps, CacheKey(city),
                                     FetchErrorResponse(city), now)
          IN  /\ response' = FetchErrorResponse(city)
              /\ httpStatus' = 503
              /\ cache' = after[1]
              /\ timestamps' = after[2]
              /\ cacheWrites' = cacheWrites + 1
     ELSE LET exc == SummaryException(fetchResult.forecast) IN
          IF exc = "none"
          THEN LET after == CacheAfterSet(cache, timestamps, CacheKey(city),
                                          SuccessResponse(fetchResult), now)
               IN  /\ response' = SuccessResponse(fetchResult)
                   /\ httpStatus' = StatusOf(SuccessResponse(fetchResult))
                   /\ cache' = after[1]
                   /\ timestamps' = after[2]
                   /\ cacheWrites' = cacheWrites + 1
          ELSE IF exc \in {"KeyError", "ValueError", "TypeError"}
          THEN /\ response' = ProcessingErrorResponse(city)
               /\ httpStatus' = StatusOf(ProcessingErrorResponse(city))
               /\ UNCHANGED <<cacheVars, cacheWrites>>
          ELSE /\ response' = InternalErrorResponse
               /\ httpStatus' = 500
               /\ UNCHANGED <<cacheVars, cacheWrites>>
  /\ UNCHANGED <<entry, city, execVars, lookups, httpCalls, sleepCalls, located, coords,
                 fetchResult, raised, cacheReads, now>>
  /\ UNCHANGED historyVars

\* _get_weather, lines 106-147, and weather_webhook, lines 171-183:
\* fetch_forecast has returned; the response is built, stored and answered.
GetWeatherFinish ==
  /\ pc = "fetched"
  /\ pc' = "done"
  /\ IF fetchResult = None
     THEN /\ response' = FetchErrorResponse(city)
          /\ httpStatus' = 503
          /\ UNCHANGED <<cacheVars, cacheWrites>>
     ELSE LET exc == SummaryException(fetchResult.forecast) IN
          IF exc = "none"
          THEN LET after == CacheAfterSet(cache, timestamps, CacheKey(city),
                                          SuccessResponse(fetchResult), now)
               IN  /\ response' = SuccessResponse(fetchResult)
                   /\ httpStatus' = StatusOf(SuccessResponse(fetchResult))
                   /\ cache' = after[1]
                   /\ timestamps' = after[2]
                   /\ cacheWrites' = cacheWrites + 1
          ELSE IF exc \in {"KeyError", "ValueError", "TypeError"}
          THEN /\ response' = ProcessingErrorResponse(city)
               /\ httpStatus' = StatusOf(ProcessingErrorResponse(city))
               /\ UNCHANGED <<cacheVars, cacheWrites>>
          ELSE /\ response' = InternalErrorResponse
               /\ httpStatus' = 500
               /\ UNCHANGED <<cacheVars, cacheWrites>>
  /\ UNCHANGED <<entry, city, execVars, lookups, httpCalls, sleepCalls, located, coords,
                 fetchResult, raised, cacheReads, now>>
  /\ UNCHANGED historyVars

(***************************************************************************)
(* The specification.                                                      *)
(***************************************************************************)
Next ==
  \/ CallMakeRequest
  \/ \E c \in Cities \cup {NoneCity} : CallGetCoordinates(c)
  \/ \E q \in Cities \cup {NoneCity} : WebhookRequest(q)
  \/ GetWeatherCacheCheck
  \/ \E p \in GeoPayloads \cup ForecastPayloads : AttemptOk(p)
  \/ \E o \in Outcomes : AttemptFails(o)
  \/ \E o \in Outcomes : AttemptRaises(o)
  \/ MakeRequestReturn
  \/ FirstLookupReturn
  \/ FallbackLookupReturn
  \/ FetchForecastReturn
  \/ GetWeatherFinish

Spec == Init /\ [][Next]_vars

(***************************************************************************)
(* ResponseCache used by several threads at once.  The class takes no      *)
(* lock, so a thread can be suspended between any two statements of get,   *)
(* set and clear; each action below is one statement.                      *)
(***************************************************************************)
\* The exception of a dictionary access with a missing key.
KeyErrorRaised == [kind |-> "raised", exc |-> "KeyError"]

\* Thread t ends its call with result r.
ThreadReturns(t, r) ==
  threads' = [threads EXCEPT ![t] = [IdleThread EXCEPT !.result = r,
                                     !.deletedNew = threads[t].deletedNew]]

\* get, lines 55-56: `if key not in self.cache: return None`
ThreadGetLookup(t, k) ==
  /\ threads[t].pc = "idle"
  /\ IF k \notin DOMAIN cache
     THEN ThreadReturns(t, None)
     ELSE threads' = [threads EXCEPT ![t] = [@ EXCEPT !.pc = "get_compare", !.key = k,
                                                      !.result = None]]
  /\ UNCHANGED <<callVars, cacheVars, now, ticks, lastOp, written, served>>

\* get, line 57: `if datetime.now() > self.timestamps[key]:`
ThreadGetCompare(t) ==
  /\ threads[t].pc = "get_compare"
  /\ LET k == threads[t].key IN
     IF k \notin DOMAIN timestamps
     THEN ThreadReturns(t, KeyErrorRaised)
     ELSE threads' = [threads EXCEPT ![t] =
                       [@ EXCEPT !.pc = IF now > timestamps[k] THEN "get_del_cache"
                                        ELSE "get_return",
                                 !.seen = timestamps[k]]]
  /\ UNCHANGED <<callVars, cacheVars, now, ticks, lastOp, written, served>>

\* get, line 59: `del self.cache[key]`
ThreadGetDelCache(t) ==
  /\ threads[t].pc = "get_del_cache"
  /\ LET k == threads[t].key IN
     IF k \notin DOMAIN cache
     THEN /\ ThreadReturns(t, KeyErrorRaised)
          /\ UNCHANGED cacheVars
     ELSE /\ cache' = DictRemove(cache, k)
          /\ UNCHANGED timestamps
          /\ threads' = [threads EXCEPT ![t] =
                           [@ EXCEPT !.pc = "get_del_timestamp",
                                     !.deletedNew = @ \/ (/\ k \in DOMAIN timestamps
                                                          /\ timestamps[k] # threads[t].seen)]]
  /\ UNCHANGED <<callVars, now, ticks, lastOp, written, served>>

\* get, lines 60-61: `del self.timestamps[key]; return None`
ThreadGetDelTimestamp(t) ==
  /\ threads[t].pc = "get_del_timestamp"
  /\ LET k == threads[t].key IN
     IF k \notin DOMAIN timestamps
     THEN /\ ThreadReturns(t, KeyErrorRaised)
          /\ UNCHANGED cacheVars
     ELSE /\ timestamps' = DictRemove(timestamps, k)
          /\ UNCHANGED cache
          /\ threads' = [threads EXCEPT ![t] =
                           [IdleThread EXCEPT !.deletedNew =
                              threads[t].deletedNew \/ timestamps[k] # threads[t].seen]]
  /\ UNCHANGED <<callVars, now, ticks, lastOp, written, served>>

\* get, line 65: `return self.cache[key]`
ThreadGetReturn(t) ==
  /\ threads[t].pc = "get_return"
  /\ LET k == threads[t].key IN
     IF k \notin DOMAIN cache
     THEN ThreadReturns(t, KeyErrorRaised)
     ELSE ThreadReturns(t, cache[k])
  /\ UNCHANGED <<callVars, cacheVars, now, ticks, lastOp, written, served>>

\* set, line 69: `self.cache[key] = value`
ThreadSetValue(t, k, v) ==
  /\ threads[t].pc = "idle"
  /\ cache' = DictPut(cache, k, v)
  /\ threads' = [threads EXCEPT ![t] = [@ EXCEPT !.pc = "set_timestamp", !.key = k,
                                                   !.value = v, !.result = None]]
  /\ UNCHANGED <<callVars, timestamps, now, ticks, lastOp, written, served>>

\* set, line 70: `self.timestamps[key] = datetime.now() + timedelta(...)`
ThreadSetTimestamp(t) ==
  /\ threads[t].pc = "set_timestamp"
  /\ timestamps' = DictPut(timestamps, threads[t].key, now + CACHE_TTL_SECONDS)
  /\ ThreadReturns(t, None)
  /\ UNCHANGED <<callVars, cache, now, ticks, lastOp, written, served>>

\* clear, line 75: `self.cache.clear()`
ThreadClearValues(t) ==
  /\ threads[t].pc = "idle"
  /\ cache' = EmptyDict
  /\ threads' = [threads EXCEPT ![t] = [@ EXCEPT !.pc = "clear_timestamps",
                                                   !.result = None]]
  /\ UNCHANGED <<callVars, timestamps, now, ticks, lastOp, written, served>>

\* clear, line 76: `self.timestamps.clear()`
ThreadClearTimestamps(t) ==
  /\ threads[t].pc = "clear_timestamps"
  /\ timestamps' = EmptyDict
  /\ ThreadReturns(t, None)
  /\ UNCHANGED <<callVars, cache, now, ticks, lastOp, written, served>>

NextThreads ==
  \/ \E t \in Threads, k \in CacheKeys : ThreadGetLookup(t, k)
  \/ \E t \in Threads : ThreadGetCompare(t)
  \/ \E t \in Threads : ThreadGetDelCache(t)
  \/ \E t \in Threads : ThreadGetDelTimestamp(t)
  \/ \E t \in Threads : ThreadGetReturn(t)
  \/ \E t \in Threads, k \in CacheKeys, v \in CacheValues : ThreadSetValue(t, k, v)
  \/ \E t \in Threads : ThreadSetTimestamp(t)
  \/ \E t \in Threads : ThreadClearValues(t)
  \/ \E t \in Threads : ThreadClearTimestamps(t)
  \/ \E d \in {1, CACHE_TTL_SECONDS} : Tick(d)

SpecThreads == Init /\ [][NextThreads]_vars

(***************************************************************************)
(* _get_weather called by several request threads at once, for the same    *)
(* city or not.  A response dictionary is an object: the cache stores a reference *)
(* to it, and the thread that built it and every thread that was handed    *)
(* it by the cache hold the same object.  The object built by thread t is  *)
(* calls[t].object; a reference names its builder.  Each get and set of    *)
(* the cache is taken as one step here; their statements are interleaved   *)
(* in SpecThreads.                                                         *)
(***************************************************************************)
\* The cities the threads ask for.
CallCities == {<<"H">>, CITY}

\* A reference to the response dictionary built by thread t.
Ref(t) == [kind |-> "ref", owner |-> t]

\* The number of response_cache.set calls made so far.
StoresSoFar ==
  Cardinality({u \in Threads : calls[u].pc # "idle" /\ calls[u].stored > 0})

\* weather_webhook, lines 162-169: a request for city c reaches thread t,
\* which calls _get_weather.
CallArrives(t, c) ==
  /\ pc = "idle"
  /\ calls[t].pc = "idle"
  /\ c \in CallCities
  /\ calls' = [calls EXCEPT ![t] =
                 [pc |-> "check", city |-> c, missed |-> FALSE, fetched |-> FALSE, built |-> FALSE,
                  stored |-> 0, holds |-> 0, object |-> [from_cache |-> FALSE],
                  delivered |-> None]]
  /\ UNCHANGED <<entry, pc, city, execVars, lookups, httpCalls, sleepCalls, located,
                 coords, fetchResult, response, httpStatus, raised, cacheVars, cacheReads,
                 cacheWrites, now, ticks, lastOp, written, served, threads, geocoders>>

\* _get_weather, lines 97-98: cached = response_cache.get(cache_key)
CallCacheGet(t) ==
  /\ calls[t].pc = "check"
  /\ LET k == CacheKey(calls[t].city)
         cached == CacheGet(cache, timestamps, k, now)
         after == CacheAfterGet(cache, timestamps, k, now)
     IN  /\ cache' = after[1]
         /\ timestamps' = after[2]
         /\ calls' = [calls EXCEPT ![t] =
                        IF cached # None
                        THEN [@ EXCEPT !.pc = "hit", !.holds = cached.owner]
                        ELSE [@ EXCEPT !.pc = "fetch", !.missed = TRUE]]
  /\ UNCHANGED <<entry, pc, city, execVars, lookups, httpCalls, sleepCalls, located,
                 coords, fetchResult, response, httpStatus, raised, cacheReads,
                 cacheWrites, now, ticks, lastOp, written, served, threads, geocoders>>

\* _get_weather, lines 100-101: cached['from_cache'] = True; return cached.
\* The assignment writes into the object the cache handed out.
CallTagCached(t) ==
  /\ calls[t].pc = "hit"
  /\ calls' = [calls EXCEPT ![calls[t].holds].object.from_cache = TRUE,
                            ![t].pc = "return"]
  /\ UNCHANGED <<entry, pc, city, execVars, lookups, httpCalls, sleepCalls, located,
                 coords, fetchResult, response, httpStatus, raised, cacheVars, cacheReads,
                 cacheWrites, now, ticks, lastOp, written, served, threads, geocoders>>

\* CallFetch that first looks whether another thread has stored a response
\* in the meantime, and takes that one instead of asking the upstream.
CallFetch_Deduplicated(t, ok) ==
  /\ calls[t].pc = "fetch"
  /\ ok \in BOOLEAN
  /\ LET k == CacheKey(calls[t].city) IN
     calls' = [calls EXCEPT ![t] =
                 IF k \in DOMAIN cache
                 THEN [@ EXCEPT !.pc = "return", !.holds = cache[k].owner]
                 ELSE IF ok
                 THEN [@ EXCEPT !.pc = "store", !.fetched = TRUE, !.built = TRUE,
                                !.object = [from_cache |-> FALSE]]
                 ELSE [@ EXCEPT !.pc = "return", !.fetched = TRUE]]
  /\ UNCHANGED <<entry, pc, city, execVars, lookups, httpCalls, sleepCalls, located,
                 coords, fetchResult, response, httpStatus, raised, cacheVars, cacheReads,
                 cacheWrites, now, ticks, lastOp, written, served, threads, geocoders>>

\* _get_weather, lines 104-134: fetch_forecast asks the upstream; without
\* a forecast the error dictionary is returned, with one the response
\* dictionary is built, with from_cache False.
CallFetch(t, ok) ==
  /\ calls[t].pc = "fetch"
  /\ ok \in BOOLEAN
  /\ calls' = [calls EXCEPT ![t] =
                 IF ok
                 THEN [@ EXCEPT !.pc = "store", !.fetched = TRUE, !.built = TRUE,
                                !.object = [from_cache |-> FALSE]]
                 ELSE [@ EXCEPT !.pc = "return", !.fetched = TRUE]]
  /\ UNCHANGED <<entry, pc, city, execVars, lookups, httpCalls, sleepCalls, located,
                 coords, fetchResult, response, httpStatus, raised, cacheVars, cacheReads,
                 cacheWrites, now, ticks, lastOp, written, served, threads, geocoders>>

\* _get_weather, lines 137-139: response_cache.set(cache_key, response);
\* return response.  The cache and the thread hold the same dictionary.
CallStore(t) ==
  /\ calls[t].pc = "store"
  /\ LET after == CacheAfterSet(cache, timestamps, CacheKey(calls[t].city), Ref(t), now) IN
       /\ cache' = after[1]
       /\ timestamps' = after[2]
  /\ calls' = [calls EXCEPT ![t] = [@ EXCEPT !.pc = "return", !.holds = t,
                                             !.stored = StoresSoFar + 1]]
  /\ UNCHANGED <<entry, pc, city, execVars, lookups, httpCalls, sleepCalls, located,
                 coords, fetchResult, response, httpStatus, raised, cacheReads,
                 cacheWrites, now, ticks, lastOp, written, served, threads, geocoders>>

\* weather_webhook, lines 171-176: the result's status is read and the
\* dictionary is serialised as it is at that moment.
CallDeliver(t) ==
  /\ calls[t].pc = "return"
  /\ calls' = [calls EXCEPT ![t] =
                 [@ EXCEPT !.pc = "done",
                           !.delivered =
                             IF calls[t].holds = 0
                             THEN [status |-> "error", httpStatus |-> 503]
                             ELSE [status |-> "success", httpStatus |-> 200,
                                   from_cache |-> calls[calls[t].holds].object.from_cache]]]
  /\ UNCHANGED <<entry, pc, city, execVars, lookups, httpCalls, sleepCalls, located,
                 coords, fetchResult, response, httpStatus, raised, cacheVars, cacheReads,
                 cacheWrites, now, ticks, lastOp, written, served, threads, geocoders>>

NextCalls ==
  \/ \E t \in Threads, c \in CallCities : CallArrives(t, c)
  \/ \E t \in Threads : CallCacheGet(t)
  \/ \E t \in Threads : CallTagCached(t)
  \/ \E t \in Threads, ok \in BOOLEAN : CallFetch(t, ok)
  \/ \E t \in Threads : CallStore(t)
  \/ \E t \in Threads : CallDeliver(t)

SpecCalls == Init /\ [][NextCalls]_vars

\* The ResponseCache alone: get, set and clear in any order, with the clock
\* moving between them.
NextCache ==
  \/ \E k \in CacheKeys : CacheOpGet(k)
  \/ \E k \in CacheKeys, v \in CacheValues : CacheOpSet(k, v)
  \/ CacheOpClear
  \/ \E d \in {1, CACHE_TTL_SECONDS} : Tick(d)

SpecCache == Init /\ [][NextCache]_vars

\* The server answering one request after another.  The answered request
\* is filed with the time of its answer, the time the next one arrives and
\* the cache as the next one finds it, and the state of the next call
\* starts afresh; the cache and the clock are the server's and stay.  The
\* next request arrives one second, one second less than a time-to-live,
\* or one second more than a time-to-live later.
RequestGaps == {1, CACHE_TTL_SECONDS - 1, CACHE_TTL_SECONDS + 1}

NewRequest(d) ==
  /\ pc = "done"
  /\ entry = "webhook"
  /\ Len(served) < MaxRequests
  /\ d \in RequestGaps
  /\ served' = Append(served, [city |-> city, response |-> response,
                               httpStatus |-> httpStatus, at |-> now, next |-> now + d,
                               cache |-> cache, timestamps |-> timestamps])
  /\ now' = now + d
  /\ entry' = "none"
  /\ pc' = "idle"
  /\ city' = <<>>
  /\ StartExec("none")
  /\ lookups' = <<>>
  /\ httpCalls' = [geo |-> 0, forecast |-> 0, direct |-> 0]
  /\ sleepCalls' = 0
  /\ located' = None
  /\ coords' = None
  /\ fetchResult' = None
  /\ response' = None
  /\ httpStatus' = 0
  /\ cacheReads' = 0
  /\ cacheWrites' = 0
  /\ UNCHANGED <<raised, cacheVars, ticks, lastOp, written, threads, calls, geocoders>>

\* The requests and the upstream behaviour the server is run against: a
\* city with and one without a comma, lookups with and without a result,
\* and forecasts of one day or more; every attempt is answered.
ServerCities == {<<"H">>, NoneCity}

ServerPayloads ==
  { p \in GeoPayloads :
      /\ p.kind = "object"
      /\ p.keys = {"results"}
      /\ \A i \in 1..Len(p.results) : {"latitude", "longitude"} \subseteq p.results[i].fields }
  \cup { p \in ForecastPayloads :
           /\ p.kind = "object"
           /\ p.keys = {"daily"}
           /\ \A k \in DailyKeys : Len(p.daily.arr[k]) >= 1 }

NextServer ==
  \/ \E q \in ServerCities : WebhookRequest(q)
  \/ GetWeatherCacheCheck
  \/ \E p \in ServerPayloads : AttemptOk(p)
  \/ FirstLookupReturn
  \/ FallbackLookupReturn
  \/ FetchForecastReturn
  \/ GetWeatherFinish
  \/ \E d \in RequestGaps : NewRequest(d)

SpecServer == Init /\ [][NextServer]_vars

\* The server run against an upstream that also fails: besides the bodies
\* above, forecasts of zero days, one-day forecasts without weather_code,
\* without precipitation_sum or with an empty wind array, and attempts
\* that fail to connect.  Two requests are served.
ServerFaultPayloads ==
  ServerPayloads
  \cup { p \in ForecastPayloads :
           /\ p.kind = "object"
           /\ p.keys = {"daily"}
           /\ p.daily.arr["time"] = <<>> }
  \cup { p \in ForecastPayloads :
           /\ p.kind = "object"
           /\ p.keys = {"daily", "timezone"}
           /\ Len(p.daily.arr["time"]) = 1
           /\ \/ "weather_code" \notin p.daily.present
              \/ "precipitation_sum" \notin p.daily.present
              \/ /\ "wind_speed_10m_max" \in p.daily.present
                 /\ p.daily.arr["wind_speed_10m_max"] = <<>> }

NextServerFaults ==
  \/ \E q \in ServerCities : WebhookRequest(q)
  \/ GetWeatherCacheCheck
  \/ \E p \in ServerFaultPayloads : AttemptOk(p)
  \/ AttemptFails("connection")
  \/ FirstLookupReturn
  \/ FallbackLookupReturn
  \/ FetchForecastReturn
  \/ GetWeatherFinish
  \/ \E d \in RequestGaps : served = <<>> /\ NewRequest(d)

SpecServerFaults == Init /\ [][NextServerFaults]_vars

\* The same server with its scheduling: a request in progress takes its
\* next step, each HTTP attempt ending within its timeout and each sleep
\* ending; whether another request arrives is left open.
RequestStep ==
  \/ GetWeatherCacheCheck
  \/ \E p \in ServerFaultPayloads : AttemptOk(p)
  \/ AttemptFails("connection")
  \/ FirstLookupReturn
  \/ FallbackLookupReturn
  \/ FetchForecastReturn
  \/ GetWeatherFinish

SpecServerFair == Init /\ [][NextServerFaults]_vars /\ WF_vars(RequestStep)

(***************************************************************************)
(* modal_webhook.py: the second WeatherFetcher.get_coordinates, run side   *)
(* by side with the one of src/weather.py on the same place name and the   *)
(* same executor returns: the i-th return answers the i-th lookup of       *)
(* whichever implementation sends an i-th lookup.                          *)
(***************************************************************************)
\* What a call of _make_request_with_retry ends with: an exception no
\* clause catches, None after the attempts, or the body of a 2xx response.
ExecReturns ==
  {[raised |-> TRUE, data |-> None], [raised |-> FALSE, data |-> None]}
  \cup {[raised |-> FALSE, data |-> p] : p \in GeoPayloads}

\* modal_webhook.py, lines 60 and 67:
\* not data or "results" not in data or not data["results"]
ModalNoResults(data) ==
  \/ ~Truthy(data)
  \/ data.kind # "object"
  \/ "results" \notin data.keys
  \/ data.results = <<>>

\* modal_webhook.py, lines 58-68, after the first lookup: there is no try
\* block, so an exception of the executor leaves get_coordinates.
ModalFirstLookupDecision(raisedInExec, data, c) ==
  IF raisedInExec THEN "raise"
  ELSE IF ~ModalNoResults(data) THEN "extract"
  ELSE IF HasComma(c) THEN "fallback"
  ELSE "fail"

\* modal_webhook.py, lines 65-68, after the fallback lookup.
ModalFallbackDecision(raisedInExec, data) ==
  IF raisedInExec THEN "raise"
  ELSE IF ModalNoResults(data) THEN "fail"
  ELSE "extract"

\* modal_webhook.py, lines 70-76: result.get("latitude") is None for a
\* result without latitude.
ModalLocation(r) ==
  [kind |-> "location",
   city |-> FieldOr(r, "name", <<"Unknown">>),
   state |-> FieldOr(r, "admin1", <<>>),
   latitude |-> IF "latitude" \in r.fields
                THEN [kind |-> "number", value |-> r.latitude] ELSE None,
   longitude |-> IF "longitude" \in r.fields
                 THEN [kind |-> "number", value |-> r.longitude] ELSE None]

\* One get_coordinates after a decision d on the executor return r: it
\* waits for the fallback lookup, has raised, or has returned.
GeocoderAfter(g, d, r, name, location) ==
  CASE d = "fallback" -> [g EXCEPT !.pc = "fallback", !.lookups = Append(@, name)]
    [] d = "raise" -> [g EXCEPT !.pc = "raised"]
    [] d = "extract" -> [g EXCEPT !.pc = "returned", !.result = location]
    [] OTHER -> [g EXCEPT !.pc = "returned", !.result = None]

\* Both implementations are called with the name c and send the first
\* lookup.
GeocodersCall(c) ==
  /\ pc = "idle"
  /\ geocoders.pc = "idle"
  /\ c \in Cities
  /\ geocoders' = [pc |-> "called", city |-> c, returns |-> <<>>,
                   weather |-> [pc |-> "first", lookups |-> <<c>>, result |-> None],
                   modal |-> [pc |-> "first", lookups |-> <<c>>, result |-> None]]
  /\ UNCHANGED <<entry, pc, city, execVars, lookups, httpCalls, sleepCalls, located,
                 coords, fetchResult, response, httpStatus, raised, cacheVars, cacheReads,
                 cacheWrites, now, ticks, lastOp, written, served, threads, calls>>

\* The executor returns r to the first lookup of both.
GeocodersFirstReturn(r) ==
  /\ geocoders.pc = "called"
  /\ geocoders.returns = <<>>
  /\ r \in ExecReturns
  /\ LET c == geocoders.city
         first == IF HasResults(r.data) THEN r.data.results[1] ELSE GeoResult({})
         w == FirstLookupDecision(r.raised, r.data, c)
         m == ModalFirstLookupDecision(r.raised, r.data, c)
     IN  geocoders' =
           [geocoders EXCEPT
              !.returns = <<r>>,
              !.weather = GeocoderAfter(@, w, r, FallbackName(c), ExtractLocationData(first)),
              !.modal = GeocoderAfter(@, m, r, FallbackName(c), ModalLocation(first))]
  /\ UNCHANGED <<entry, pc, city, execVars, lookups, httpCalls, sleepCalls, located,
                 coords, fetchResult, response, httpStatus, raised, cacheVars, cacheReads,
                 cacheWrites, now, ticks, lastOp, written, served, threads, calls>>

\* The executor returns r to the fallback lookup of each implementation
\* that sent one.
GeocodersFallbackReturn(r) ==
  /\ geocoders.pc = "called"
  /\ Len(geocoders.returns) = 1
  /\ geocoders.weather.pc = "fallback" \/ geocoders.modal.pc = "fallback"
  /\ r \in ExecReturns
  /\ LET first == IF HasResults(r.data) THEN r.data.results[1] ELSE GeoResult({})
         w == FallbackDecision(r.raised, r.data)
         m == ModalFallbackDecision(r.raised, r.data)
     IN  geocoders' =
           [geocoders EXCEPT
              !.returns = Append(@, r),
              !.weather = IF @.pc = "fallback"
                          THEN GeocoderAfter(@, w, r, <<>>, ExtractLocationData(first))
                          ELSE @,
              !.modal = IF @.pc = "fallback"
                        THEN GeocoderAfter(@, m, r, <<>>, ModalLocation(first))
                        ELSE @]
  /\ UNCHANGED <<entry, pc, city, execVars, lookups, httpCalls, sleepCalls, located,
                 coords, fetchResult, response, httpStatus, raised, cacheVars, cacheReads,
                 cacheWrites, now, ticks, lastOp, written, served, threads, calls>>

NextGeocoders ==
  \/ \E c \in Cities : GeocodersCall(c)
  \/ \E r \in ExecReturns : GeocodersFirstReturn(r)
  \/ \E r \in ExecReturns : GeocodersFallbackReturn(r)

SpecGeocoders == Init /\ [][NextGeocoders]_vars

(***************************************************************************)
(* Properties.  The attempts of the executor call in progress, or of the   *)
(* last one made, are outcomes[1..Len(outcomes)]; the call has returned    *)
(* or raised when pc is not "exec".                                        *)
(***************************************************************************)

\* C1: a 4xx response to the executor causes exactly one attempt: the
\* executor aborts at once, with no later attempt and no backoff sleep
\* after it, and returns failure.
C1_ClientErrorAborts ==
  \A i \in 1..Len(outcomes) :
    outcomes[i] = "http4xx" =>
      /\ Len(outcomes) = i
      /\ Len(sleeps) < i
      /\ pc # "exec"
      /\ execResult = None
      /\ ~execRaised

\* C2: one executor call makes at most 3 HTTP attempts, and a successful
\* attempt is the last one: the call returns, and returns the body that
\* attempt read.
C2_AtMostThreeStopAtSuccess ==
  /\ Len(outcomes) <= MAX_RETRIES
  /\ httpCalls.direct <= MAX_RETRIES
  /\ \A i \in 1..Len(outcomes) :
       outcomes[i] = "ok" =>
         /\ i = Len(outcomes)
         /\ pc # "exec"
         /\ ~execRaised
         /\ received \in PayloadsFor(target)
         /\ execResult = received

C2_Witness ==
  /\ pc = "exec_ret"
  /\ Len(outcomes) = MAX_RETRIES
  /\ outcomes[MAX_RETRIES] = "ok"
  /\ Truthy(execResult)

\* C3: a timeout, connection error or 5xx status on an attempt that is not
\* the last is followed by another attempt (the loop is at the next index
\* or an attempt has followed), and three such failures make exactly 3
\* attempts and a return of None.
C3_RetryableRetried ==
  LET R == {"timeout", "connection", "http5xx"} IN
  /\ \A i \in 1..Len(outcomes) :
       (outcomes[i] \in R /\ i < MAX_RETRIES) =>
         \/ Len(outcomes) > i
         \/ pc = "exec" /\ attempt = i
  /\ (Len(outcomes) >= MAX_RETRIES /\ \A i \in 1..Len(outcomes) : outcomes[i] \in R) =>
       /\ Len(outcomes) = MAX_RETRIES
       /\ pc # "exec"
       /\ execResult = None
       /\ ~execRaised

C3_Witness ==
  /\ pc = "exec_ret"
  /\ outcomes = <<"timeout", "connection", "http5xx">>
  /\ execResult = None

\* C4: every sleep is taken in order from the schedule 1, 2, 4, 8, 8, ...:
\* the delay starts at 1, doubles and never exceeds 8; each timeout on an
\* attempt that is not the last is followed by a sleep; three timeouts in a
\* row make exactly 3 attempts with increasing sleeps from the schedule and
\* then a return of None.
C4_BackoffSchedule ==
  LET Schedule(i) == IF i = 1 THEN 1 ELSE IF i = 2 THEN 2 ELSE IF i = 3 THEN 4 ELSE 8 IN
  /\ \A i \in 1..Len(sleeps) : sleeps[i] = Schedule(i)
  /\ retry_delay = Schedule(Len(sleeps) + 1)
  /\ retry_delay <= MAX_RETRY_DELAY
  /\ \A d \in 1..MAX_RETRY_DELAY : NextDelay(d) <= MAX_RETRY_DELAY
  /\ Len(sleeps) <= Len(outcomes)
  /\ \A i \in 1..Len(outcomes) :
       (outcomes[i] = "timeout" /\ i < MAX_RETRIES) => Len(sleeps) >= i
  /\ (Len(outcomes) >= MAX_RETRIES /\ \A i \in 1..Len(outcomes) : outcomes[i] = "timeout") =>
       /\ Len(outcomes) = MAX_RETRIES
       /\ sleeps # <<>>
       /\ \A i \in 1..(Len(sleeps) - 1) : sleeps[i] < sleeps[i + 1]
       /\ pc # "exec"
       /\ execResult = None
       /\ ~execRaised

C4_Witness ==
  /\ pc = "exec_ret"
  /\ outcomes = <<"timeout", "timeout", "timeout">>
  /\ sleeps = <<1, 2>>

\* C5: an unparseable body is retried, not fatal: on an attempt that is not
\* the last it is followed by a sleep and another attempt, and the call
\* ends on an unparseable body only at the third attempt, returning None.
C5_BadJsonRetried ==
  /\ \A i \in 1..Len(outcomes) :
       (outcomes[i] = "badjson" /\ i < MAX_RETRIES) =>
         /\ Len(sleeps) >= i
         /\ \/ Len(outcomes) > i
            \/ pc = "exec" /\ attempt = i
  /\ (pc # "exec" /\ outcomes # <<>> /\ outcomes[Len(outcomes)] = "badjson") =>
       /\ Len(outcomes) = MAX_RETRIES
       /\ execResult = None
       /\ ~execRaised

C5_Witness ==
  /\ pc = "exec_ret"
  /\ outcomes = <<"badjson", "badjson", "badjson">>
  /\ sleeps = <<1, 2>>
  /\ execResult = None

\* C6: the executor never raises to its caller, whatever the HTTP GET does
\* on each attempt.
C6_ExecutorNeverRaises == ~execRaised

\* C7: get_coordinates rejects a name that is None, empty after trimming or
\* longer than 100 characters without any HTTP request, and returns failure.
C7_GeocoderValidatesName ==
  (/\ entry = "get_coordinates"
   /\ \/ city = NoneCity
      \/ Strip(city) = <<>>
      \/ Len(city) > MaxCityChars) =>
    /\ httpCalls.geo = 0
    /\ coords = None

\* C8: a request with an empty city parameter is answered 400 with the
\* message 'Invalid city parameter'; no HTTP request is sent and the cache
\* is neither read nor written.
C8_EmptyCityIs400 ==
  (entry = "webhook" /\ city = <<>>) =>
    /\ pc = "done"
    /\ httpStatus = 400
    /\ response = [status |-> "error", message |-> <<"Invalid city parameter">>]
    /\ httpCalls = [geo |-> 0, forecast |-> 0, direct |-> 0]
    /\ cacheReads = 0
    /\ cacheWrites = 0
    /\ cache = EmptyDict
    /\ timestamps = EmptyDict

C8_Witness ==
  /\ entry = "webhook"
  /\ city = <<>>
  /\ pc = "done"
  /\ httpStatus = 400

\* C9: a transported forecast body without the daily series, or whose daily
\* series lacks any one of the six per-day fields, is rejected:
\* fetch_forecast returns None.
C9_MissingFieldRejected ==
  (/\ pc \in {"fetched", "done"}
   /\ target = "forecast"
   /\ received # None
   /\ received.kind = "object"
   /\ \/ "daily" \notin received.keys
      \/ received.daily.present # DailyKeys) =>
    fetchResult = None

\* C10: a transported forecast body whose per-day arrays do not all have
\* the same length is rejected: no success payload is assembled and the
\* response never has status success.
C10_MismatchedLengthsRejected ==
  (/\ pc \in {"fetched", "done"}
   /\ target = "forecast"
   /\ received # None
   /\ received.kind = "object"
   /\ "daily" \in received.keys
   /\ Cardinality({Len(received.daily.arr[k]) : k \in received.daily.present}) > 1) =>
    /\ fetchResult = None
    /\ pc = "done" => response.status # "success"

\* C11: a second geocoding lookup is made only for a name with a comma, with
\* the trimmed text before the first comma, and never a third; a first
\* lookup that returned a JSON object with zero results for a name with a
\* comma never ends the call, and when the fallback yields no result the
\* call returns None.
C11_SingleFallback ==
  LET Zero(d) ==
        /\ d # None
        /\ d.kind = "object"
        /\ ~("results" \in d.keys /\ d.results # <<>>)
      Over == pc \notin {"exec", "exec_ret"}
  IN
  /\ Len(lookups) <= 2
  /\ httpCalls.geo <= 2 * MAX_RETRIES
  /\ target = "geo2" => Len(lookups) = 2
  /\ Len(lookups) = 2 =>
       /\ lookups[1] = city
       /\ target # "geo1"
       /\ \E i \in 1..Len(city) :
            /\ city[i] = ","
            /\ \A j \in 1..(i - 1) : city[j] # ","
            /\ \E a \in 1..i, b \in 0..(i - 1) :
                 /\ lookups[2] = SubSeq(city, a, b)
                 /\ \A j \in 1..(i - 1) : (j < a \/ j > b) => city[j] = " "
                 /\ lookups[2] # <<>> =>
                      lookups[2][1] # " " /\ lookups[2][Len(lookups[2])] # " "
  /\ (target = "geo1" /\ Over /\ city # NoneCity /\ HasComma(city)) => ~Zero(received)
  /\ (target = "geo2" /\ Over /\ (received = None \/ Zero(received))) => coords = None

\* C12: for 'Houston, Texas', when the first lookup finds nothing, the
\* fallback lookup for 'Houston' returns a result with coordinates and the
\* forecast is valid, the request is answered with status success, and the
\* city, state, latitude and longitude of the response are those of the
\* fallback's result.
C12_FallbackResultUsed ==
  (/\ entry = "webhook"
   /\ city = CITY
   /\ pc = "done"
   /\ Len(lookups) = 2
   /\ located # None
   /\ {"latitude", "longitude"} \subseteq located.fields
   /\ target = "forecast"
   /\ received # None
   /\ received.kind = "object"
   /\ "daily" \in received.keys
   /\ received.daily.present = DailyKeys
   /\ \E n \in 1..(MaxDays + 1) : \A k \in DailyKeys : Len(received.daily.arr[k]) = n) =>
    /\ response.status = "success"
    /\ httpStatus = 200
    /\ response.data.city = (IF "name" \in located.fields THEN located.name ELSE <<"Unknown">>)
    /\ response.data.state = (IF "admin1" \in located.fields THEN located.admin1 ELSE <<>>)
    /\ response.data.latitude = located.latitude
    /\ response.data.longitude = located.longitude

C12_Witness ==
  /\ entry = "webhook"
  /\ city = CITY
  /\ pc = "done"
  /\ lookups = <<CITY, <<"H">>>>
  /\ located # None
  /\ located.fields = GeoFields
  /\ response # None
  /\ response.status = "success"
  /\ response.data.city = <<"H">>
  /\ response.data.latitude = 29

\* C13: extraction fails when latitude or longitude is absent from the
\* result, and otherwise gives the result's latitude and longitude, with
\* 'Unknown' for an absent name or country and '' for an absent region.
C13_ExtractLocation ==
  located # None =>
    IF "latitude" \in located.fields /\ "longitude" \in located.fields
    THEN coords =
           [kind |-> "location",
            latitude |-> located.latitude,
            longitude |-> located.longitude,
            city |-> IF "name" \in located.fields THEN located.name ELSE <<"Unknown">>,
            country |-> IF "country" \in located.fields
                        THEN located.country ELSE <<"Unknown">>,
            state |-> IF "admin1" \in located.fields THEN located.admin1 ELSE <<>>]
    ELSE coords = None

C13_Witness ==
  /\ located # None
  /\ located.fields = {"latitude", "longitude"}
  /\ coords # None
  /\ coords.city = <<"Unknown">>
  /\ coords.country = <<"Unknown">>
  /\ coords.state = <<>>

\* C14: a direct call of get_coordinates never raises; it returns None
\* when its last lookup ended without a body (timeouts, connection errors,
\* unparseable bodies, error statuses, an exception of the transport) or
\* with a body without a usable result, and it returns coordinates only for
\* a body whose result has both latitude and longitude.
C14_GetCoordinatesNeverRaises ==
  entry = "get_coordinates" =>
    /\ ~raised
    /\ pc = "done" =>
         /\ (outcomes[Len(outcomes)] # "ok") => coords = None
         /\ coords # None =>
              /\ located # None
              /\ {"latitude", "longitude"} \subseteq located.fields
              /\ outcomes[Len(outcomes)] = "ok"
              /\ received.kind = "object"
              /\ received.results = <<located>>

C14_Witness ==
  /\ entry = "get_coordinates"
  /\ pc = "done"
  /\ execRaised
  /\ outcomes = <<"http4xx", "badjson", "other">>
  /\ coords = None
  /\ ~raised

\* C15: get returns the stored value exactly when the time of the get is
\* at most the entry's expiry, the expiry instant included, and leaves the
\* entry stored; a get after the expiry, so any get more than the
\* time-to-live after the set, returns None and removes the entry from both
\* maps; a get of a key that is not stored returns None.
C15_GetHitsUntilExpiry ==
  lastOp.op = "get" =>
    LET k == lastOp.key IN
    /\ IF k \in DOMAIN lastOp.cache /\ lastOp.at <= lastOp.timestamps[k]
       THEN /\ lastOp.ret = lastOp.cache[k]
            /\ k \in DOMAIN cache
            /\ cache[k] = lastOp.cache[k]
       ELSE /\ lastOp.ret = None
            /\ k \notin DOMAIN cache
            /\ k \notin DOMAIN timestamps
    /\ (k \in DOMAIN written /\ lastOp.at > written[k].at + CACHE_TTL_SECONDS) =>
         /\ lastOp.ret = None
         /\ k \notin DOMAIN cache

C15_Witness ==
  /\ lastOp.op = "get"
  /\ lastOp.key \in DOMAIN lastOp.cache
  /\ lastOp.at = lastOp.timestamps[lastOp.key]
  /\ lastOp.at = written[lastOp.key].at + CACHE_TTL_SECONDS
  /\ lastOp.ret = written[lastOp.key].value

\* C16: a get of key k no later than the time-to-live after the last
\* set(k, v), with no clear since that set, returns v, whatever was done to
\* other keys in between.
C16_SetThenGet ==
  (/\ lastOp.op = "get"
   /\ lastOp.key \in DOMAIN written
   /\ written[lastOp.key].live
   /\ lastOp.at <= written[lastOp.key].at + CACHE_TTL_SECONDS) =>
    lastOp.ret = written[lastOp.key].value

C16_Witness ==
  /\ lastOp.op = "get"
  /\ lastOp.key \in DOMAIN written
  /\ written[lastOp.key].live
  /\ lastOp.at > written[lastOp.key].at
  /\ lastOp.ret = written[lastOp.key].value
  /\ \E k2 \in DOMAIN written :
       /\ k2 # lastOp.key
       /\ written[k2].at > written[lastOp.key].at
       /\ written[k2].value # written[lastOp.key].value

\* C17: set(k, v) leaves k stored with value v and expiry the time of the
\* set plus the time-to-live, whatever was stored for k before; so every
\* stored entry holds the value of the last set of its key and that set's
\* expiry, never an older value or an older expiry.
C17_SetReplaces ==
  /\ lastOp.op = "set" =>
       /\ lastOp.key \in DOMAIN cache
       /\ cache[lastOp.key] = lastOp.value
       /\ timestamps[lastOp.key] = lastOp.at + CACHE_TTL_SECONDS
  /\ lastOp.op # "none" =>
       \A k \in DOMAIN cache :
         /\ k \in DOMAIN written
         /\ cache[k] = written[k].value
         /\ timestamps[k] = written[k].at + CACHE_TTL_SECONDS

C17_Witness ==
  /\ lastOp.op = "set"
  /\ lastOp.key \in DOMAIN lastOp.cache
  /\ lastOp.cache[lastOp.key] # lastOp.value
  /\ lastOp.at > lastOp.timestamps[lastOp.key]
  /\ cache[lastOp.key] = lastOp.value
  /\ timestamps[lastOp.key] = lastOp.at + CACHE_TTL_SECONDS

\* C18: clear leaves both maps empty, and a get of any key whose last set
\* was followed by a clear, or that was never set, returns None, even
\* within the time-to-live of that set.
C18_ClearEmpties ==
  /\ lastOp.op = "clear" => cache = EmptyDict /\ timestamps = EmptyDict
  /\ (/\ lastOp.op = "get"
      /\ lastOp.key \in DOMAIN written => ~written[lastOp.key].live) =>
       lastOp.ret = None

C18_Witness ==
  /\ lastOp.op = "get"
  /\ lastOp.key \in DOMAIN written
  /\ ~written[lastOp.key].live
  /\ lastOp.at <= written[lastOp.key].at + CACHE_TTL_SECONDS
  /\ lastOp.ret = None

\* C19: a set or a get of one key, an evicting get included, leaves every
\* other key as it was: stored or not, and with the same value and expiry.
C19_KeysIndependent ==
  lastOp.op \in {"get", "set"} =>
    \A k2 \in CacheKeys \ {lastOp.key} :
      /\ k2 \in DOMAIN cache <=> k2 \in DOMAIN lastOp.cache
      /\ k2 \in DOMAIN timestamps <=> k2 \in DOMAIN lastOp.timestamps
      /\ k2 \in DOMAIN lastOp.cache =>
           /\ cache[k2] = lastOp.cache[k2]
           /\ timestamps[k2] = lastOp.timestamps[k2]

C19_Witness ==
  /\ lastOp.op = "get"
  /\ lastOp.key \in DOMAIN lastOp.cache
  /\ lastOp.key \notin DOMAIN cache
  /\ \E k2 \in DOMAIN cache : k2 # lastOp.key /\ lastOp.at > timestamps[k2]

\* C20: a successful call with no earlier successful call for its city
\* is answered from_cache = false after requests to both endpoints; a call
\* that arrives no later than the time-to-live after an earlier call for
\* the same city stored its answer gets that answer's data with
\* from_cache = true and sends no request.
C20_SecondCallFromCache ==
  (pc = "done" /\ entry = "webhook") =>
    LET arrived == IF served = <<>> THEN 0 ELSE served[Len(served)].next
        Stored(i) ==
          /\ served[i].city = city
          /\ served[i].response.status = "success"
          /\ ~served[i].response.from_cache
    IN
    /\ (/\ response.status = "success"
        /\ \A i \in 1..Len(served) : served[i].city = city => served[i].httpStatus # 200) =>
         /\ ~response.from_cache
         /\ httpCalls.geo >= 1
         /\ httpCalls.forecast >= 1
    /\ \A i \in 1..Len(served) :
         (Stored(i) /\ arrived <= served[i].at + CACHE_TTL_SECONDS) =>
           /\ response.status = "success"
           /\ response.from_cache
           /\ response.data = served[i].response.data
           /\ httpCalls = [geo |-> 0, forecast |-> 0, direct |-> 0]
           /\ sleepCalls = 0

C20_Witness ==
  /\ pc = "done"
  /\ entry = "webhook"
  /\ Len(served) = 2
  /\ served[1].city = city
  /\ served[2].city = city
  /\ served[1].response.status = "success"
  /\ ~served[1].response.from_cache
  /\ served[2].response.from_cache
  /\ served[2].next = served[1].at + CACHE_TTL_SECONDS
  /\ response.status = "success"
  /\ response.from_cache
  /\ response.data = served[1].response.data
  /\ httpCalls.geo + httpCalls.forecast = 0

\* C21: the forecast endpoint is requested only after get_coordinates
\* returned coordinates; when it returned None, fetch_forecast returns None
\* at once and the request is answered with the fetch error, no request
\* having gone to the forecast endpoint.
C21_NoForecastWithoutCoordinates ==
  /\ (target = "forecast" \/ httpCalls.forecast > 0) =>
       /\ coords # None
       /\ located # None
       /\ {"latitude", "longitude"} \subseteq located.fields
  /\ (/\ entry = "webhook"
      /\ pc \in {"fetched", "done"}
      /\ lookups # <<>>
      /\ coords = None) =>
       /\ httpCalls.forecast = 0
       /\ fetchResult = None
       /\ target \in {"geo1", "geo2"}
       /\ pc = "done" =>
            /\ response.status = "error"
            /\ httpStatus = 503
            /\ cacheWrites = 0

C21_Witness ==
  /\ entry = "webhook"
  /\ pc = "done"
  /\ city = CITY
  /\ Len(lookups) = 2
  /\ coords = None
  /\ httpCalls.geo = 2 * MAX_RETRIES
  /\ httpCalls.forecast = 0
  /\ httpStatus = 503

\* C22: every error response of the endpoint has exactly the fields status,
\* message and city, the city being the location string of the request.
C22_UniformErrorShape ==
  (entry = "webhook" /\ pc = "done" /\ response.status = "error") =>
    /\ DOMAIN response = {"status", "message", "city"}
    /\ response.city = city

\* C23: a request is answered with 200, 400, 503 or 500 and nothing is
\* raised: 400 exactly for an empty or too long city, 200 exactly for a
\* success result, 503 when fetch_forecast returned None or the summary
\* raised an exception _get_weather catches, and 500 only when the summary
\* raised one it does not catch (the division by the length of an empty
\* wind array).
C23_FourStatuses ==
  entry = "webhook" =>
    /\ ~raised
    /\ pc = "done" =>
         /\ httpStatus \in {200, 400, 500, 503}
         /\ httpStatus = 400 <=> (city = <<>> \/ Len(city) > MaxCityChars)
         /\ httpStatus = 200 <=> response.status = "success"
         /\ httpStatus # 200 => response.status = "error"
         /\ (lookups # <<>> /\ fetchResult = None) => httpStatus = 503
         /\ httpStatus = 500 <=>
              /\ fetchResult # None
              /\ received.daily.arr["temperature_2m_max"] # <<>>
              /\ received.daily.arr["temperature_2m_min"] # <<>>
              /\ {"precipitation_sum", "wind_speed_10m_max"} \subseteq received.daily.present
              /\ received.daily.arr["wind_speed_10m_max"] = <<>>
         /\ httpStatus = 500 => response.message = <<"Internal server error">>

C23_Witness ==
  /\ entry = "webhook"
  /\ pc = "done"
  /\ httpStatus = 500
  /\ fetchResult # None
  /\ received.daily.arr["wind_speed_10m_max"] = <<>>
  /\ response.status = "error"
  /\ ~raised

\* C24: in a success response high_temp_f is the greatest entry of the
\* max-temperature array, low_temp_f the least entry of the min-temperature
\* array, total_precipitation_inches the sum of the precipitation array,
\* days the length of the time array, and each average the sum of its array
\* over the array's length.
C24_SummaryValues ==
  (entry = "webhook" /\ pc = "done" /\ response.status = "success") =>
    LET a == received.daily.arr
        s == response.data.forecast_summary
        Total(x) == LET part[i \in 0..Len(x)] == IF i = 0 THEN 0 ELSE part[i - 1] + x[i]
                    IN  part[Len(x)]
        hi == a["temperature_2m_max"]
        lo == a["temperature_2m_min"]
    IN
    /\ Len(a["time"]) >= 1
    /\ \E i \in 1..Len(hi) : hi[i] = s.high_temp_f
    /\ \A i \in 1..Len(hi) : hi[i] <= s.high_temp_f
    /\ \E i \in 1..Len(lo) : lo[i] = s.low_temp_f
    /\ \A i \in 1..Len(lo) : lo[i] >= s.low_temp_f
    /\ s.total_precipitation_inches = Total(a["precipitation_sum"])
    /\ s.days = Len(a["time"])
    /\ s.avg_high_temp_f = [num |-> Total(hi), den |-> Len(hi)]
    /\ s.avg_wind_mph = [num |-> Total(a["wind_speed_10m_max"]),
                         den |-> Len(a["wind_speed_10m_max"])]
    /\ s.avg_high_temp_f.den > 0
    /\ s.avg_wind_mph.den > 0

C24_Witness ==
  /\ entry = "webhook"
  /\ pc = "done"
  /\ response.status = "success"
  /\ response.data.forecast_summary.days = 2
  /\ response.data.forecast_summary.high_temp_f = 82
  /\ response.data.forecast_summary.low_temp_f = 61
  /\ response.data.forecast_summary.avg_high_temp_f = [num |-> 163, den |-> 2]
  /\ response.data.forecast_summary.total_precipitation_inches = 3

\* C25: a forecast body whose daily series has zero days makes
\* fetch_forecast return None.
C25_ZeroDaysRejected ==
  (/\ target = "forecast"
   /\ pc \in {"fetched", "done"}
   /\ received.kind = "object"
   /\ "daily" \in received.keys
   /\ "time" \in received.daily.present
   /\ received.daily.arr["time"] = <<>>) =>
    fetchResult = None

\* C27: all requests to the forecast endpoint are the attempts of one
\* executor call, at most MAX_RETRIES of them; a body that lacks "daily" or
\* one of the required arrays, or whose required arrays differ in length,
\* was the last request of the call and makes fetch_forecast return None.
C27_ValidationFailureNotRetried ==
  /\ target = "forecast" =>
       /\ httpCalls.forecast = Len(outcomes)
       /\ httpCalls.forecast <= MAX_RETRIES
       /\ \A i \in 1..(Len(outcomes) - 1) : outcomes[i] # "ok"
  /\ target # "forecast" => httpCalls.forecast = 0
  /\ (/\ target = "forecast"
      /\ pc \in {"fetched", "done"}
      /\ received.kind = "object"
      /\ \/ "daily" \notin received.keys
         \/ \E k \in {"time", "weather_code", "temperature_2m_max", "temperature_2m_min"} :
              k \notin received.daily.present
         \/ \E k1, k2 \in {"time", "weather_code", "temperature_2m_max",
                           "temperature_2m_min"} :
              Len(received.daily.arr[k1]) # Len(received.daily.arr[k2])) =>
       /\ fetchResult = None
       /\ outcomes[Len(outcomes)] = "ok"
       /\ entry = "webhook" /\ pc = "done" => httpStatus = 503

C27_Witness ==
  /\ target = "forecast"
  /\ pc = "done"
  /\ outcomes = <<"timeout", "ok">>
  /\ received.kind = "object"
  /\ "daily" \in received.keys
  /\ "weather_code" \notin received.daily.present
  /\ fetchResult = None
  /\ httpCalls.forecast = 2

\* C29: after every completed get, set and clear the value map and the
\* expiry map have the same keys.
C29_MapsHaveSameKeys == DOMAIN cache = DOMAIN timestamps

C29_Witness ==
  /\ lastOp.op = "get"
  /\ lastOp.key \in DOMAIN lastOp.cache
  /\ DOMAIN cache = DOMAIN lastOp.cache \ {lastOp.key}
  /\ DOMAIN timestamps = DOMAIN lastOp.timestamps \ {lastOp.key}
  /\ DOMAIN cache # {}

\* C28 as stated: a request answered with an error leaves both maps of the
\* cache exactly as it found them.
C28_ErrorLeavesCacheUnchanged ==
  (pc = "done" /\ entry = "webhook" /\ response.status = "error") =>
    /\ cache = (IF served = <<>> THEN EmptyDict ELSE served[Len(served)].cache)
    /\ timestamps = (IF served = <<>> THEN EmptyDict ELSE served[Len(served)].timestamps)

\* C28 amended: a request answered with an error creates and replaces no
\* entry, and removes none but the expired entry of its own city, which
\* its cache read evicts; so only success responses are ever stored, and a
\* response served from the cache is a success.
C28_ErrorStoresNothing ==
  (pc = "done" /\ entry = "webhook") =>
    LET c0 == IF served = <<>> THEN EmptyDict ELSE served[Len(served)].cache
        ts0 == IF served = <<>> THEN EmptyDict ELSE served[Len(served)].timestamps
        arrived == IF served = <<>> THEN 0 ELSE served[Len(served)].next
    IN
    /\ response.status = "error" =>
         /\ \A x \in DOMAIN cache :
              /\ x \in DOMAIN c0
              /\ cache[x] = c0[x]
              /\ timestamps[x] = ts0[x]
         /\ \A x \in DOMAIN c0 \ DOMAIN cache :
              /\ x = <<"forecast_">> \o city
              /\ arrived > ts0[x]
         /\ DOMAIN timestamps = DOMAIN cache
         /\ cacheWrites = 0
    /\ \A x \in DOMAIN cache : cache[x].status = "success"
    /\ "from_cache" \in DOMAIN response => response.status = "success"

C28_Witness ==
  /\ pc = "done"
  /\ entry = "webhook"
  /\ Len(served) = 1
  /\ served[1].city = city
  /\ served[1].response.status = "success"
  /\ DOMAIN served[1].cache = {<<"forecast_">> \o city}
  /\ served[1].next > served[1].at + CACHE_TTL_SECONDS
  /\ target = "forecast"
  /\ outcomes = <<"connection", "connection", "connection">>
  /\ response.status = "error"
  /\ cache = EmptyDict

\* C30: a request that arrives after the entry stored for its city has
\* expired reads the cache, sends requests upstream and is not answered
\* from the cache; when it succeeds its response has from_cache = false and
\* is the entry now stored for the city, with expiry the time of this fetch
\* plus the time-to-live.
C30_RefetchAfterExpiry ==
  LET arrived == IF served = <<>> THEN 0 ELSE served[Len(served)].next
      k == <<"forecast_">> \o city
      Stored(i) ==
        /\ served[i].city = city
        /\ served[i].response.status = "success"
        /\ ~served[i].response.from_cache
  IN
  (/\ pc = "done"
   /\ entry = "webhook"
   /\ \E i \in 1..Len(served) : Stored(i)
   /\ \A i \in 1..Len(served) : Stored(i) => arrived > served[i].at + CACHE_TTL_SECONDS) =>
    /\ cacheReads = 1
    /\ httpCalls.geo >= 1
    /\ "from_cache" \in DOMAIN response => ~response.from_cache
    /\ response.status = "success" =>
         /\ ~response.from_cache
         /\ httpCalls.forecast >= 1
         /\ response.data.fetched_at >= arrived
         /\ k \in DOMAIN cache
         /\ cache[k] = response
         /\ timestamps[k] = response.data.fetched_at + CACHE_TTL_SECONDS
         /\ timestamps[k] = now + CACHE_TTL_SECONDS

C30_Witness ==
  /\ pc = "done"
  /\ entry = "webhook"
  /\ Len(served) = 1
  /\ served[1].city = city
  /\ served[1].response.status = "success"
  /\ served[1].next = served[1].at + CACHE_TTL_SECONDS + 1
  /\ outcomes = <<"connection", "ok">>
  /\ response.status = "success"
  /\ ~response.from_cache
  /\ response.data.forecast_summary # served[1].response.data.forecast_summary
  /\ cache[<<"forecast_">> \o city] = response
  /\ timestamps[<<"forecast_">> \o city] = served[1].next + 1 + CACHE_TTL_SECONDS

\* C26: whatever the interleaving of the statements of concurrent get, set
\* and clear calls, no call raises KeyError, and no get deletes an entry
\* whose expiry is not the one it found expired.
C26_ConcurrentCacheSafe ==
  \A t \in Threads :
    /\ threads[t].result # KeyErrorRaised
    /\ ~threads[t].deletedNew

\* C33: when the first geocoding lookup ends without a transported body
\* (the executor returned None after its attempts, or raised), get_coordinates
\* returns None without sending the fallback lookup, comma or not; the
\* fallback lookup is sent only after a first lookup whose last attempt was
\* answered, with a JSON object without results, for a name with a comma.
C33_NoFallbackAfterTransportFailure ==
  [][(pc = "exec_ret" /\ target = "geo1") =>
       LET failed == execRaised \/ outcomes[Len(outcomes)] # "ok" IN
         /\ failed =>
              /\ lookups' = lookups
              /\ target' = "geo1"
              /\ httpCalls' = httpCalls
              /\ coords' = None
              /\ pc' \in {"done", "fetched"}
         /\ lookups' # lookups =>
              /\ ~failed
              /\ execResult.kind = "object"
              /\ ~HasResults(execResult)
              /\ city # NoneCity
              /\ HasComma(city)]_vars

C33_Witness ==
  /\ entry = "get_coordinates"
  /\ pc = "done"
  /\ target = "geo1"
  /\ HasComma(city)
  /\ outcomes = <<"timeout", "connection", "http5xx">>
  /\ lookups = <<city>>
  /\ httpCalls.geo = MAX_RETRIES
  /\ coords = None

\* C34: the executor sleeps only between attempts, never after the last
\* one: while the loop runs every attempt made was followed by a sleep, a
\* call that has ended slept once less than it made attempts, a call that
\* failed on all 3 attempts slept exactly twice, 1 then 2 seconds, a call
\* that succeeded on attempt k slept k-1 times, and the sleeps of one call
\* add up to at most 3 seconds.
C34_SleepsOnlyBetweenAttempts ==
  LET n == Len(outcomes)
      ended == pc # "exec" /\ n > 0
  IN
  /\ SeqSum(sleeps) <= 3
  /\ pc = "exec" => Len(sleeps) = n
  /\ ended => Len(sleeps) = n - 1
  /\ (ended /\ outcomes[n] = "ok") => Len(sleeps) = n - 1 /\ n <= MAX_RETRIES
  /\ (ended /\ n = MAX_RETRIES /\ \A i \in 1..n : outcomes[i] # "ok" /\ Caught(outcomes[i])) =>
       sleeps = <<1, 2>>

C34_Witness ==
  /\ pc = "exec_ret"
  /\ outcomes = <<"http5xx", "timeout", "connection">>
  /\ sleeps = <<1, 2>>
  /\ sleepCalls = 2
  /\ execResult = None

\* C37: when the forecast passed validation and building the summary
\* raises, the request is answered 503 with the error response that names
\* the city, and nothing is stored in the cache.
C37_SummaryFailureIs503 ==
  (/\ entry = "webhook"
   /\ pc = "done"
   /\ fetchResult # None
   /\ SummaryException(fetchResult.forecast) # "none") =>
    /\ response = ProcessingErrorResponse(city)
    /\ httpStatus = 503
    /\ cacheWrites = 0
    /\ cache = EmptyDict

C36_HitKeepsExpiry ==
  /\ \A k \in DOMAIN timestamps :
       /\ k \in DOMAIN written
       /\ written[k].live
       /\ timestamps[k] = written[k].at + CACHE_TTL_SECONDS
  /\ lastOp.op = "get" =>
       LET k == lastOp.key IN
       /\ (k \in DOMAIN lastOp.cache /\ lastOp.at <= lastOp.timestamps[k]) =>
            /\ cache = lastOp.cache
            /\ timestamps = lastOp.timestamps
       /\ k \notin DOMAIN lastOp.cache =>
            /\ lastOp.ret = None
            /\ cache = lastOp.cache
            /\ timestamps = lastOp.timestamps
       /\ (k \in DOMAIN written /\ lastOp.at > written[k].at + CACHE_TTL_SECONDS) =>
            /\ lastOp.ret = None
            /\ k \notin DOMAIN cache
            /\ k \notin DOMAIN timestamps

C36_Witness ==
  /\ lastOp.op = "get"
  /\ lastOp.key \in DOMAIN written
  /\ written[lastOp.key].reads = MaxReads
  /\ lastOp.key \in DOMAIN lastOp.cache
  /\ lastOp.timestamps[lastOp.key] = written[lastOp.key].at + CACHE_TTL_SECONDS
  /\ lastOp.at = written[lastOp.key].at + CACHE_TTL_SECONDS + 1
  /\ lastOp.ret = None
  /\ lastOp.key \notin DOMAIN cache

\* C38: for every place name and every sequence of executor returns, the
\* get_coordinates of src/weather.py and the one of modal_webhook.py send
\* the same lookups, both return coordinates or both fail, and the
\* coordinates have the same latitude, longitude, city and state.
C38_GeocodersEquivalent ==
  LET w == geocoders.weather
      m == geocoders.modal
      Over(g) == g.pc \in {"returned", "raised"}
      Failed(g) == g.pc = "raised" \/ g.result = None
  IN
  (geocoders.pc = "called" /\ Over(w) /\ Over(m)) =>
    /\ w.lookups = m.lookups
    /\ Failed(w) <=> Failed(m)
    /\ ~Failed(w) =>
         /\ m.result.latitude = [kind |-> "number", value |-> w.result.latitude]
         /\ m.result.longitude = [kind |-> "number", value |-> w.result.longitude]
         /\ m.result.city = w.result.city
         /\ m.result.state = w.result.state

\* C31: concurrent misses are not de-duplicated.  Every call that missed
\* the cache asks the upstream itself, whatever the other calls have done
\* in the meantime, and stores the response it built; the cache holds the
\* response of the latest store.  (The interleaving of the claim, two calls
\* that both miss, both fetch and both store, is C31_Witness.)
C31_MissesNotDeduplicated ==
  LET Active == {t \in Threads : calls[t].pc # "idle"}
      Key(t) == CacheKey(calls[t].city)
  IN
  /\ \A t \in Active :
       /\ (calls[t].missed /\ calls[t].pc \in {"store", "return", "done"}) => calls[t].fetched
       /\ (calls[t].built /\ calls[t].pc \in {"return", "done"}) => calls[t].stored > 0
       /\ calls[t].stored > 0 => calls[t].built /\ calls[t].missed
  /\ \A t \in Active :
       (/\ calls[t].stored > 0
        /\ \A u \in Active : Key(u) = Key(t) => calls[u].stored <= calls[t].stored) =>
         /\ Key(t) \in DOMAIN cache
         /\ cache[Key(t)] = Ref(t)

C31_Witness ==
  /\ calls[1].pc = "done"
  /\ calls[2].pc = "done"
  /\ calls[1].city = calls[2].city
  /\ calls[1].missed /\ calls[1].fetched /\ calls[1].stored = 1
  /\ calls[2].missed /\ calls[2].fetched /\ calls[2].stored = 2
  /\ cache[CacheKey(calls[1].city)] = Ref(2)

\* C32: the response delivered to a request that fetched from the upstream
\* itself says from_cache = false, whatever concurrent requests that were
\* answered from the cache have done.
C32_FetcherSeesFromCacheFalse ==
  \A t \in Threads :
    (calls[t].pc = "done" /\ calls[t].built) =>
      /\ calls[t].delivered.status = "success"
      /\ calls[t].delivered.from_cache = FALSE

====
